---------------------------- MODULE Spec2Model ----------------------------
(***************************************************************************)
(* Model of the rule-based accessibility repair engine                     *)
(* (src/server/accessibility-engine.ts).                                   *)
(*                                                                         *)
(* Text is a sequence of characters, each character a string: an ASCII     *)
(* character stands for itself, any other character is written by its code *)
(* point ("U+FF1A").  The regular expressions of the source are translated *)
(* into scanning operators that return the match the JavaScript engine     *)
(* returns (leftmost match, greedy or lazy quantifiers as written).  The   *)
(* operators of the engine apply one another by name, through Call.        *)
(* repairHtml is a pipeline of passes; every pass is one action.           *)
(***************************************************************************)
EXTENDS Integers, Sequences, FiniteSets, TLC

VARIABLES
    pc,         \* the pass of repairHtml that runs next
    html,       \* the pristine input of the call
    config,     \* the caller's configuration
    repaired,   \* the working text
    issues,     \* the issue ledger of the call
    prev,       \* the working text before the pass that ran last
    prevIssues, \* the ledger before the pass that ran last
    tag,        \* addOrUpdateAttr: the tag text given
    attrName,   \* addOrUpdateAttr: the attribute name given
    attrValue,  \* addOrUpdateAttr: the value given
    tagOut,     \* addOrUpdateAttr: the tag text returned
    ruleId,     \* ruleEnabled: the rule id asked about
    ruleOut,    \* ruleEnabled: the answer
    styleIn,    \* normalizeInlineStyle: the style text given
    styleBase,  \* normalizeInlineStyle: the basePx given
    styleRemoveWidth, \* normalizeInlineStyle: the removeWidth given
    styleOut,   \* normalizeInlineStyle: the { style, changed } returned
    lengthText, \* emFromPx / emFromPt: the number, as the text matched
    unitName,   \* emFromPx / emFromPt: which of the two is applied
    unitBase,   \* emFromPx / emFromPt: the base given
    emOut,      \* emFromPx / emFromPt: the text returned
    firstRun,   \* the result of repairHtml(html, config)
    secondRun,  \* the result of repairHtml on the repairedHtml of firstRun
    callLog,    \* the calls of repairHtml made so far, with their results
    catalog     \* BUILT_IN_RULES, the exported array of the module

vars == <<pc, html, config, repaired, issues, prev, prevIssues,
          tag, attrName, attrValue, tagOut, ruleId, ruleOut,
          styleIn, styleBase, styleRemoveWidth, styleOut,
          lengthText, unitName, unitBase, emOut,
          firstRun, secondRun, callLog, catalog>>

repairVars == <<html, config, repaired, issues, prev, prevIssues>>
attrVars == <<tag, attrName, attrValue, tagOut>>
ruleVars == <<ruleId, ruleOut>>
styleVars == <<styleIn, styleBase, styleRemoveWidth, styleOut>>
unitVars == <<lengthText, unitName, unitBase, emOut>>
rerunVars == <<firstRun, secondRun>>
callVars == <<callLog, catalog>>

\* Call(f, a): the operator named f applied to the arguments a.  The operators
\* of the engine apply one another through Call, which is defined after them.
RECURSIVE Call(_, _)

-----------------------------------------------------------------------------
(* Characters and character classes of the JavaScript regular expressions. *)

\* null / undefined of the source: a value no text is equal to.
Null == <<"<null>">>

\* The whitespace characters \s matches, among the characters of the model.
SpaceChars == {" ", "\t", "\n"}

LowerLetters ==
    {"a","b","c","d","e","f","g","h","i","j","k","l","m",
     "n","o","p","q","r","s","t","u","v","w","x","y","z"}

\* Upper-case letters and their lower-case forms (the i flag, toLowerCase).
LowerOf ==
    ("A" :> "a") @@ ("B" :> "b") @@ ("C" :> "c") @@ ("D" :> "d") @@
    ("E" :> "e") @@ ("F" :> "f") @@ ("G" :> "g") @@ ("H" :> "h") @@
    ("I" :> "i") @@ ("J" :> "j") @@ ("K" :> "k") @@ ("L" :> "l") @@
    ("M" :> "m") @@ ("N" :> "n") @@ ("O" :> "o") @@ ("P" :> "p") @@
    ("Q" :> "q") @@ ("R" :> "r") @@ ("S" :> "s") @@ ("T" :> "t") @@
    ("U" :> "u") @@ ("V" :> "v") @@ ("W" :> "w") @@ ("X" :> "x") @@
    ("Y" :> "y") @@ ("Z" :> "z")

Digits == {"0","1","2","3","4","5","6","7","8","9"}

\* The characters \w matches (no u flag: ASCII only).
WordChars == LowerLetters \cup DOMAIN LowerOf \cup Digits \cup {"_"}

Lower(c) == IF c \in DOMAIN LowerOf THEN LowerOf[c] ELSE c

IsSpace(c) == c \in SpaceChars

toLowerCase(s) == [k \in 1..Len(s) |-> Lower(s[k])]

\* literal lit (lower case) stands in s at position i, case-insensitively
MatchLitCI(s, i, lit) ==
    /\ i >= 1
    /\ i + Len(lit) - 1 <= Len(s)
    /\ \A k \in 1..Len(lit) : Lower(s[i + k - 1]) = lit[k]

\* literal lit stands in s at position i, case-sensitively
MatchLit(s, i, lit) ==
    /\ i >= 1
    /\ i + Len(lit) - 1 <= Len(s)
    /\ \A k \in 1..Len(lit) : s[i + k - 1] = lit[k]

\* \b between s[i-1] and s[i]
WordBoundary(s, i) ==
    LET before == i - 1 >= 1 /\ i - 1 <= Len(s) /\ s[i - 1] \in WordChars
        after == i >= 1 /\ i <= Len(s) /\ s[i] \in WordChars
    IN  before # after

\* \s* from position i: the first position at or after i that holds no whitespace
RECURSIVE SkipSpaces(_, _)
SkipSpaces(s, i) ==
    IF i <= Len(s) /\ IsSpace(s[i]) THEN SkipSpaces(s, i + 1) ELSE i

\* the last of a non-empty set of positions
Greatest(S) == CHOOSE m \in S : \A x \in S : x <= m

\* the first of a set of positions (where a scan that moves left to right
\* stops), or 0 when there is none
First(S) == IF S = {} THEN 0 ELSE CHOOSE m \in S : \A x \in S : m <= x

\* the first position at or after i that holds c, or 0
IndexOfChar(s, i, c) == First({j \in i..Len(s) : s[j] = c})

\* [^\s>]+ from position i: the position after its last character
UnquotedEnd(s, i) ==
    LET stop == First({j \in i..Len(s) : IsSpace(s[j]) \/ s[j] = ">"})
    IN  IF i > Len(s) THEN i ELSE IF stop = 0 THEN Len(s) + 1 ELSE stop

\* the first position at or after i where lit stands (case-insensitively), or 0
IndexOfCI(s, i, lit) == First({j \in i..(Len(s) + 1) : Call("MatchLitCI", <<s, j, lit>>)})

\* String.prototype.indexOf(lit): the first position where lit stands, or 0
IndexOf(s, i, lit) == First({j \in i..(Len(s) + 1) : Call("MatchLit", <<s, j, lit>>)})

includes(s, lit) == IndexOf(s, 1, lit) # 0

RECURSIVE TrimStart(_)
TrimStart(s) ==
    IF s # <<>> /\ IsSpace(s[1]) THEN TrimStart(Tail(s)) ELSE s

RECURSIVE TrimEnd(_)
TrimEnd(s) ==
    IF s # <<>> /\ IsSpace(s[Len(s)]) THEN TrimEnd(SubSeq(s, 1, Len(s) - 1)) ELSE s

\* String.prototype.trim
trim(s) == TrimEnd(TrimStart(s))

-----------------------------------------------------------------------------
(* Attribute matcher: getAttr and addOrUpdateAttr.                         *)

NoMatch == [start |-> 0, end |-> 0, vstart |-> 0, vend |-> 0]

\* The regular expression of getAttr and addOrUpdateAttr,
\*   \sNAME\s*=\s*("([^"]*)"|'([^']*)'|[^\s>]+)   with the i flag,
\* tried at position i: the span it matches and the span of the value group.
AttrMatchAt(s, i, name) ==
    IF ~(i <= Len(s) /\ IsSpace(s[i]) /\ Call("MatchLitCI", <<s, i + 1, name>>)) THEN NoMatch
    ELSE LET eq == SkipSpaces(s, i + 1 + Len(name)) IN
         IF ~(eq <= Len(s) /\ s[eq] = "=") THEN NoMatch
         ELSE LET v == SkipSpaces(s, eq + 1)
                  q == IF v <= Len(s) /\ s[v] \in {"\"", "'"}
                       THEN IndexOfChar(s, v + 1, s[v]) ELSE 0
                  u == Call("UnquotedEnd", <<s, v>>)
              IN  IF q # 0 THEN [start |-> i, end |-> q, vstart |-> v + 1, vend |-> q - 1]
                  ELSE IF u > v THEN [start |-> i, end |-> u - 1, vstart |-> v, vend |-> u - 1]
                  ELSE NoMatch

\* the leftmost match of the attribute expression at or after position i
AttrMatchFrom(s, i, name) ==
    LET j == First({p \in i..Len(s) : Call("AttrMatchAt", <<s, p, name>>).start # 0})
    IN  IF j = 0 THEN NoMatch ELSE Call("AttrMatchAt", <<s, j, name>>)

AttrMatch(s, name) == Call("AttrMatchFrom", <<s, 1, name>>)

getAttr(t, name) ==
    LET m == AttrMatch(t, name) IN
    IF m.start = 0 THEN Null ELSE SubSeq(t, m.vstart, m.vend)

\* v.replace(/^["']|["']$/g, ""): one quote off the front, one off the end
StripQuotes(v) ==
    LET a == IF v # <<>> /\ v[1] \in {"\"", "'"} THEN Tail(v) ELSE v
    IN  IF a # <<>> /\ a[Len(a)] \in {"\"", "'"}
        THEN SubSeq(a, 1, Len(a) - 1) ELSE a

\* the text ` name="value"` that addOrUpdateAttr writes
AttrText(name, value) == <<" ">> \o name \o <<"=", "\"">> \o value \o <<"\"">>

\* the replacement callback of addOrUpdateAttr for the matched text m
AttrReplacement(m, name, value) ==
    LET eq == IndexOfChar(m, 1, "=")
        v == Call("trim", <<SubSeq(m, eq + 1, Len(m))>>)
        raw == Call("StripQuotes", <<v>>)
    IN  IF Call("trim", <<raw>>) = <<>> THEN AttrText(name, value) ELSE m

addOrUpdateAttr_Overwrite(t, name, value) ==
    LET m == AttrMatch(t, name) IN
    IF m.start # 0
    THEN SubSeq(t, 1, m.start - 1) \o AttrText(name, value) \o SubSeq(t, m.end + 1, Len(t))
    ELSE IF t # <<>> /\ t[Len(t)] = ">"
         THEN SubSeq(t, 1, Len(t) - 1) \o AttrText(name, value) \o <<">">>
         ELSE t

addOrUpdateAttr(t, name, value) ==
    LET m == AttrMatch(t, name) IN
    IF m.start # 0
    THEN SubSeq(t, 1, m.start - 1)
           \o Call("AttrReplacement", <<SubSeq(t, m.start, m.end), name, value>>)
           \o SubSeq(t, m.end + 1, Len(t))
    ELSE IF t # <<>> /\ t[Len(t)] = ">"
         THEN SubSeq(t, 1, Len(t) - 1)
                \o Call("Substitution", <<AttrText(name, value) \o <<">">>, 1, <<">">>,
                                          SubSeq(t, 1, Len(t) - 1), <<>>>>)
         ELSE t

-----------------------------------------------------------------------------
(* Rule catalog and configuration.                                         *)

\* the ids of BUILT_IN_RULES, in catalog order
BUILT_IN_RULES ==
    <<"frame-title", "img-alt", "link-text", "link-title", "link-new-window",
      "table-row-header", "css-relative-units", "css-style-tag", "th-scope",
      "form-label", "skip-link", "color-contrast", "fake-button">>

RuleIds == {BUILT_IN_RULES[k] : k \in 1..Len(BUILT_IN_RULES)}

\* the rules of the catalog with canAutoFix: false
ReportOnlyRules == {"form-label", "skip-link", "color-contrast", "fake-button"}

\* config.rules: absent (hasRules = FALSE), or an object whose enabled and
\* disabled members are arrays (hasEnabled, hasDisabled) or are not.
NoRules ==
    [hasRules |-> FALSE, hasEnabled |-> FALSE, enabled |-> {},
     hasDisabled |-> FALSE, disabled |-> {}]

ruleEnabled_EnabledFirst(cfg, id) ==
    LET rules == cfg.rules IN
    IF ~rules.hasRules THEN TRUE
    ELSE IF rules.hasEnabled THEN id \in rules.enabled
    ELSE IF rules.hasDisabled /\ id \in rules.disabled THEN FALSE
    ELSE TRUE

ruleEnabled(cfg, id) ==
    LET rules == cfg.rules
        disabled == IF rules.hasDisabled THEN rules.disabled ELSE {}
    IN  IF ~rules.hasRules THEN TRUE
        ELSE IF id \in disabled THEN FALSE
        ELSE IF rules.hasEnabled THEN id \in rules.enabled
        ELSE TRUE

\* config.placeholders: every member a text, or Null when not given
NoPlaceholders ==
    [linkTitle |-> Null, linkText |-> Null, linkEmptyTitle |-> Null,
     imgAlt |-> Null, iframeTitle |-> Null, newWindowHint |-> Null]

\* repairHtml(html) without a configuration.  basePx and removeWidth are
\* given or not (config?.basePx ?? 16, config?.removeWidth ?? true).  A
\* configuration object may carry a basePt as well; repairHtml never reads it.
NoConfig ==
    [rules |-> NoRules, placeholders |-> NoPlaceholders,
     basePx |-> [given |-> FALSE, value |-> 0],
     basePt |-> [given |-> FALSE, value |-> 0],
     removeWidth |-> [given |-> FALSE, value |-> FALSE]]

-----------------------------------------------------------------------------
(* Text helpers shared by the passes.                                      *)

\* the text of span sp of s
Span(s, sp) == SubSeq(s, sp.start, sp.end)

\* String.prototype.replace(pattern, callback) with the g flag, given the
\* matches (spans, left to right, not overlapping) and the callback's results:
\* the text from position i on, with match k and the later ones replaced.
RECURSIVE SpliceFrom(_, _, _, _, _)
SpliceFrom(s, spans, repls, k, i) ==
    IF k > Len(spans) THEN SubSeq(s, i, Len(s))
    ELSE SubSeq(s, i, spans[k].start - 1) \o repls[k]
           \o SpliceFrom(s, spans, repls, k + 1, spans[k].end + 1)

Splice(s, spans, repls) == Call("SpliceFrom", <<s, spans, repls, 1, 1>>)

\* the issues the callbacks pushed, in the order of the matches
RECURSIVE ConcatAll(_, _)
ConcatAll(seqs, k) ==
    IF k > Len(seqs) THEN <<>> ELSE seqs[k] \o ConcatAll(seqs, k + 1)

\* <(name1|name2|...)\b[^>]*> tried at position i: the end of the match, or 0.
\* names is the alternation in its order, lower case.
TagEndAt(s, i, names) ==
    IF ~(i <= Len(s) /\ s[i] = "<") THEN 0
    ELSE LET hits == {k \in 1..Len(names) :
                         /\ Call("MatchLitCI", <<s, i + 1, names[k]>>)
                         /\ Call("WordBoundary", <<s, i + 1 + Len(names[k])>>)
                         /\ IndexOfChar(s, i + 1 + Len(names[k]), ">") # 0}
         IN  IF hits = {} THEN 0
             ELSE IndexOfChar(s, i + 1 + Len(names[First(hits)]), ">")

\* all matches of <(names)\b[^>]*> with the g flag, from position i on
RECURSIVE FindTags(_, _, _)
FindTags(s, i, names) ==
    LET j == First({p \in i..Len(s) : Call("TagEndAt", <<s, p, names>>) # 0}) IN
    IF j = 0 THEN <<>>
    ELSE LET e == Call("TagEndAt", <<s, j, names>>)
         IN  <<[start |-> j, end |-> e]>> \o FindTags(s, e + 1, names)

\* <name\b[^>]*>[\s\S]*?<\/name> tried at position i: the end of the opening
\* tag and the start of the closing tag, or zeros
ElementAt(s, i, name) ==
    LET g == Call("TagEndAt", <<s, i, <<name>>>>)
        closing == <<"<", "/">> \o name \o <<">">>
        c == IF g = 0 THEN 0 ELSE IndexOfCI(s, g + 1, closing)
    IN  IF c = 0 THEN [start |-> 0, end |-> 0, openEnd |-> 0, closeStart |-> 0]
        ELSE [start |-> i, end |-> c + Len(closing) - 1, openEnd |-> g, closeStart |-> c]

\* all matches of <name\b[^>]*>[\s\S]*?<\/name> with the g flag
RECURSIVE FindElements(_, _, _)
FindElements(s, i, name) ==
    LET j == First({p \in i..Len(s) : Call("ElementAt", <<s, p, name>>).start # 0}) IN
    IF j = 0 THEN <<>>
    ELSE LET m == Call("ElementAt", <<s, j, name>>)
         IN  <<m>> \o FindElements(s, m.end + 1, name)

\* the first match of <name\b[^>]*>[\s\S]*?<\/name> in s, or zeros
FirstElement(s, i, name) ==
    LET j == First({p \in i..Len(s) : Call("ElementAt", <<s, p, name>>).start # 0})
    IN  IF j = 0 THEN [start |-> 0, end |-> 0, openEnd |-> 0, closeStart |-> 0]
        ELSE Call("ElementAt", <<s, j, name>>)

\* what a replacement given as a string stands for, from position i of it on:
\* $$ is one dollar sign, $& the matched text, $` the text before the match,
\* $' the text after it; any other dollar sign stands for itself (the patterns
\* these replacements are used with have no groups)
RECURSIVE Substitution(_, _, _, _, _)
Substitution(repl, i, matched, before, after) ==
    LET d == First({p \in i..(Len(repl) - 1) : repl[p] = "$"}) IN
    IF d = 0 THEN SubSeq(repl, i, Len(repl))
    ELSE LET c == repl[d + 1]
             head == SubSeq(repl, i, d - 1)
         IN  CASE c = "$" -> head \o <<"$">> \o Substitution(repl, d + 2, matched, before, after)
               [] c = "&" -> head \o matched \o Substitution(repl, d + 2, matched, before, after)
               [] c = "`" -> head \o before \o Substitution(repl, d + 2, matched, before, after)
               [] c = "'" -> head \o after \o Substitution(repl, d + 2, matched, before, after)
               [] OTHER -> head \o <<"$">> \o Substitution(repl, d + 1, matched, before, after)

\* s.replace(lit, repl) with a string pattern: the first occurrence only
ReplaceFirst(s, lit, repl) ==
    LET i == IndexOf(s, 1, lit) IN
    IF i = 0 THEN s
    ELSE SubSeq(s, 1, i - 1)
           \o Call("Substitution", <<repl, 1, lit, SubSeq(s, 1, i - 1),
                                     SubSeq(s, i + Len(lit), Len(s))>>)
           \o SubSeq(s, i + Len(lit), Len(s))

\* s.replace(/lit/g, repl) for a literal lit
RECURSIVE ReplaceAllFrom(_, _, _, _)
ReplaceAllFrom(s, from, lit, repl) ==
    LET i == IndexOf(s, from, lit) IN
    IF i = 0 THEN SubSeq(s, from, Len(s))
    ELSE SubSeq(s, from, i - 1)
           \o Call("Substitution", <<repl, 1, lit, SubSeq(s, 1, i - 1),
                                     SubSeq(s, i + Len(lit), Len(s))>>)
           \o ReplaceAllFrom(s, i + Len(lit), lit, repl)

ReplaceAllLit(s, lit, repl) == ReplaceAllFrom(s, 1, lit, repl)

\* s.replace(/open[\s\S]*?close/gi, ""): every span from open to the first
\* close after it is removed
RECURSIVE RemoveBetween(_, _, _, _)
RemoveBetween(s, i, open, close) ==
    LET p == First({q \in i..Len(s) :
                       /\ Call("MatchLitCI", <<s, q, open>>)
                       /\ IndexOfCI(s, q + Len(open), close) # 0})
    IN  IF p = 0 THEN SubSeq(s, i, Len(s))
        ELSE SubSeq(s, i, p - 1)
               \o RemoveBetween(s, IndexOfCI(s, p + Len(open), close) + Len(close), open, close)

\* s.replace(/<[^>]+>/g, "")
RECURSIVE RemoveTags(_, _)
RemoveTags(s, i) ==
    LET p == First({q \in i..Len(s) : s[q] = "<" /\ IndexOfChar(s, q + 1, ">") > q + 1})
    IN  IF p = 0 THEN SubSeq(s, i, Len(s))
        ELSE SubSeq(s, i, p - 1) \o RemoveTags(s, IndexOfChar(s, p + 1, ">") + 1)

\* s.replace(/&nbsp;/gi, " ")
RECURSIVE ReplaceNbsp(_, _)
ReplaceNbsp(s, i) ==
    LET p == First({q \in i..Len(s) : Call("MatchLitCI", <<s, q, <<"&","n","b","s","p",";">>>>)})
    IN  IF p = 0 THEN SubSeq(s, i, Len(s))
        ELSE SubSeq(s, i, p - 1) \o <<" ">> \o ReplaceNbsp(s, p + 6)

\* s.replace(/\s+/g, " ")
RECURSIVE CollapseSpaces(_, _)
CollapseSpaces(s, i) ==
    LET p == First({q \in i..Len(s) : IsSpace(s[q])})
    IN  IF p = 0 THEN SubSeq(s, i, Len(s))
        ELSE SubSeq(s, i, p - 1) \o <<" ">> \o CollapseSpaces(s, SkipSpaces(s, p))

stripTags(h) ==
    LET a == Call("RemoveBetween", <<h, 1, <<"<","!","-","-">>, <<"-","-",">">>>>)
        b == Call("RemoveBetween", <<a, 1, <<"<","s","c","r","i","p","t">>,
                                 <<"<","/","s","c","r","i","p","t",">">>>>)
        c == Call("RemoveBetween", <<b, 1, <<"<","s","t","y","l","e">>,
                                 <<"<","/","s","t","y","l","e",">">>>>)
        d == Call("RemoveTags", <<c, 1>>)
        e == Call("ReplaceNbsp", <<d, 1>>)
        f == Call("CollapseSpaces", <<e, 1>>)
    IN  Call("trim", <<f>>)

-----------------------------------------------------------------------------
(* Numbers: parseFloat, emFromPx, emFromPt.  A number is num / 10^dec,     *)
(* computed exactly.                                                       *)

DigitValue ==
    ("0" :> 0) @@ ("1" :> 1) @@ ("2" :> 2) @@ ("3" :> 3) @@ ("4" :> 4) @@
    ("5" :> 5) @@ ("6" :> 6) @@ ("7" :> 7) @@ ("8" :> 8) @@ ("9" :> 9)

DigitChar == <<"0","1","2","3","4","5","6","7","8","9">>

\* the characters of [\d.]
NumberChars == Digits \cup {"."}

RECURSIVE Pow10(_)
Pow10(n) == IF n = 0 THEN 1 ELSE 10 * Pow10(n - 1)

\* the value of a text of digits
RECURSIVE DigitsToNat(_)
DigitsToNat(d) ==
    IF d = <<>> THEN 0
    ELSE 10 * DigitsToNat(SubSeq(d, 1, Len(d) - 1)) + DigitValue[d[Len(d)]]

\* Number.prototype.toString of a natural number
RECURSIVE NatToText(_)
NatToText(n) ==
    IF n < 10 THEN <<DigitChar[n + 1]>>
    ELSE NatToText(n \div 10) \o <<DigitChar[(n % 10) + 1]>>

\* the position after the run of digits that starts at i
RECURSIVE DigitsEnd(_, _)
DigitsEnd(s, i) ==
    IF i <= Len(s) /\ s[i] \in Digits THEN DigitsEnd(s, i + 1) ELSE i

\* parseFloat of a text of [\d.]+ : the longest prefix that is a number
parseFloat(t) ==
    LET ie == DigitsEnd(t, 1)
        fe == IF ie <= Len(t) /\ t[ie] = "." THEN DigitsEnd(t, ie + 1) ELSE ie
        int == SubSeq(t, 1, ie - 1)
        frac == SubSeq(t, ie + 1, fe - 1)
    IN  IF int = <<>> /\ frac = <<>> THEN [nan |-> TRUE, num |-> 0, dec |-> 0]
        ELSE [nan |-> FALSE, num |-> Call("DigitsToNat", <<int \o frac>>), dec |-> Len(frac)]

\* the digits of n, at least width of them
RECURSIVE Padded(_, _)
Padded(n, width) ==
    IF width <= 1 THEN Call("NatToText", <<n>>)
    ELSE IF n < Pow10(width - 1) THEN <<"0">> \o Padded(n, width - 1)
    ELSE Call("NatToText", <<n>>)

RECURSIVE TrimZeros(_)
TrimZeros(d) ==
    IF d # <<>> /\ d[Len(d)] = "0" THEN TrimZeros(SubSeq(d, 1, Len(d) - 1)) ELSE d

Rounded4_Truncated(n, base) ==
    IF n.nan THEN <<"N","a","N">>
    ELSE LET den == Pow10(n.dec) * base
             r == (n.num * 10000) \div den
             frac == TrimZeros(Padded(r % 10000, 4))
         IN  Call("NatToText", <<r \div 10000>>) \o (IF frac = <<>> THEN <<>> ELSE <<".">> \o frac)

\* (Math.round(v * 10000) / 10000).toString() for v = n / base
Rounded4(n, base) ==
    IF n.nan THEN <<"N","a","N">>
    ELSE LET den == Pow10(n.dec) * base
             r == (2 * n.num * 10000 + den) \div (2 * den)
             frac == TrimZeros(Padded(r % 10000, 4))
         IN  Call("NatToText", <<r \div 10000>>) \o (IF frac = <<>> THEN <<>> ELSE <<".">> \o frac)

emFromPx(px, basePx) == Call("Rounded4", <<px, basePx>>) \o <<"e","m">>

emFromPt(pt, basePt) == Call("Rounded4", <<pt, basePt>>) \o <<"e","m">>

\* the default of emFromPt's basePt parameter
DefaultBasePt == 12

\* the default of basePx (config?.basePx ?? 16)
DefaultBasePx == 16

\* the position after the run of [\d.] that starts at i
RECURSIVE NumberEnd(_, _)
NumberEnd(s, i) ==
    IF i <= Len(s) /\ s[i] \in NumberChars THEN NumberEnd(s, i + 1) ELSE i

Px == <<"p","x">>
Pt == <<"p","t">>
Rem == <<"r","e","m">>

\* the replacement the callbacks of the unit expressions return for number n
UnitReplacement(n, unit, base) ==
    IF unit = Px THEN emFromPx(n, base)
    ELSE IF unit = Pt THEN emFromPt(n, base)
    ELSE Call("Rounded4", <<n, 1>>) \o <<"e","m">>

\* ([\d.]+)\s*unit\b tried at position i: the end of the run of [\d.] and the
\* end of the match, or zeros
UnitAt(v, i, unit) ==
    IF ~(i <= Len(v) /\ v[i] \in NumberChars) THEN [numEnd |-> 0, end |-> 0]
    ELSE LET j == NumberEnd(v, i)
             k == SkipSpaces(v, j)
         IN  IF Call("MatchLitCI", <<v, k, unit>>) /\ Call("WordBoundary", <<v, k + Len(unit)>>)
             THEN [numEnd |-> j - 1, end |-> k + Len(unit) - 1]
             ELSE [numEnd |-> 0, end |-> 0]

\* whether ([\d.]+)\s*unit\b matches somewhere in v
HasUnit(v, unit) == \E i \in 1..Len(v) : Call("UnitAt", <<v, i, unit>>).end # 0

\* v.replace(/([\d.]+)\s*unit\b/gi, n => (n / base) em)
RECURSIVE ConvertUnit(_, _, _, _)
ConvertUnit(v, i, unit, base) ==
    IF i > Len(v) THEN <<>>
    ELSE LET m == Call("UnitAt", <<v, i, unit>>) IN
         IF m.end # 0
         THEN Call("UnitReplacement", <<Call("parseFloat", <<SubSeq(v, i, m.numEnd)>>), unit, base>>)
                \o ConvertUnit(v, m.end + 1, unit, base)
         ELSE <<v[i]>> \o ConvertUnit(v, i + 1, unit, base)

-----------------------------------------------------------------------------
(* normalizeInlineStyle.                                                   *)

\* String.prototype.split(sep) for a one-character separator
RECURSIVE SplitOn(_, _)
SplitOn(s, sep) ==
    LET i == IndexOfChar(s, 1, sep) IN
    IF i = 0 THEN <<s>>
    ELSE <<SubSeq(s, 1, i - 1)>> \o SplitOn(SubSeq(s, i + 1, Len(s)), sep)

\* the declarations of the parts of style.split(";"), in their order
RECURSIVE ParseDecls(_, _)
ParseDecls(parts, k) ==
    IF k > Len(parts) THEN <<>>
    ELSE LET p == Call("trim", <<parts[k]>>)
             idx == IndexOfChar(p, 1, ":")
         IN  IF p = <<>> \/ idx = 0 THEN ParseDecls(parts, k + 1)
             ELSE <<[prop |-> Call("toLowerCase", <<Call("trim", <<SubSeq(p, 1, idx - 1)>>)>>),
                     value |-> Call("trim", <<SubSeq(p, idx + 1, Len(p))>>)]>>
                    \o ParseDecls(parts, k + 1)

WidthProp == <<"w","i","d","t","h">>
FontSizeProp == <<"f","o","n","t","-","s","i","z","e">>
PaddingPrefix == <<"p","a","d","d","i","n","g","-">>

\* the value of one declaration after the unit conversions, and whether a
\* conversion happened
ConvertValue(prop, value, basePx) ==
    LET fs == prop = FontSizeProp
        v1 == IF fs THEN Call("ConvertUnit", <<value, 1, Px, basePx>>) ELSE value
        v2 == IF fs THEN Call("ConvertUnit", <<v1, 1, Pt, DefaultBasePt>>) ELSE v1
        v3 == IF fs THEN Call("ConvertUnit", <<v2, 1, Rem, 1>>) ELSE v2
        v4 == Call("ConvertUnit", <<v3, 1, Px, basePx>>)
        v5 == Call("ConvertUnit", <<v4, 1, Pt, DefaultBasePt>>)
    IN  [value |-> v5,
         changed |-> \/ fs /\ (HasUnit(value, Px) \/ HasUnit(v1, Pt) \/ HasUnit(v2, Rem))
                     \/ HasUnit(v3, Px) \/ HasUnit(v4, Pt)]

\* the map and filter of normalizeInlineStyle: width dropped, units converted
RECURSIVE ConvertDecls(_, _, _, _)
ConvertDecls(decls, k, basePx, removeWidth) ==
    IF k > Len(decls) THEN <<>>
    ELSE IF removeWidth /\ decls[k].prop = WidthProp
         THEN ConvertDecls(decls, k + 1, basePx, removeWidth)
         ELSE <<[prop |-> decls[k].prop,
                 value |-> Call("ConvertValue", <<decls[k].prop, decls[k].value, basePx>>).value]>>
                \o ConvertDecls(decls, k + 1, basePx, removeWidth)

\* whether the map set changed
ConvertChanged(decls, basePx, removeWidth) ==
    \E k \in 1..Len(decls) :
        \/ removeWidth /\ decls[k].prop = WidthProp
        \/ ~(removeWidth /\ decls[k].prop = WidthProp)
             /\ Call("ConvertValue", <<decls[k].prop, decls[k].value, basePx>>).changed

IsPaddingSide(prop) == Call("MatchLit", <<prop, 1, PaddingPrefix>>)

padKeys ==
    <<PaddingPrefix \o <<"t","o","p">>, PaddingPrefix \o <<"r","i","g","h","t">>,
      PaddingPrefix \o <<"b","o","t","t","o","m">>, PaddingPrefix \o <<"l","e","f","t">>>>

\* pad.get(key): the value of the last declaration of key, or Null
PadGet(converted, key) ==
    LET at == {k \in 1..Len(converted) : converted[k].prop = key} IN
    IF at = {} THEN Null
    ELSE converted[CHOOSE k \in at : \A j \in at : j <= k].value

\* padKeys.map(k => pad.get(k)).filter(Boolean)
RECURSIVE PresentVals(_, _)
PresentVals(converted, k) ==
    IF k > Len(padKeys) THEN <<>>
    ELSE LET v == PadGet(converted, padKeys[k]) IN
         (IF v = Null \/ v = <<>> THEN <<>> ELSE <<v>>) \o PresentVals(converted, k + 1)

\* the least number of padding sides that lets the compaction happen
MinPaddingSides == 3

RECURSIVE Compress_PaddingLast(_, _, _, _)
Compress_PaddingLast(converted, k, inserted, value) ==
    IF k > Len(converted)
    THEN <<[prop |-> <<"p","a","d","d","i","n","g">>, value |-> value]>>
    ELSE IF IsPaddingSide(converted[k].prop)
         THEN Compress_PaddingLast(converted, k + 1, TRUE, value)
         ELSE <<converted[k]>> \o Compress_PaddingLast(converted, k + 1, inserted, value)

\* the declarations with every padding-* dropped and one padding declaration
\* put where the first of them stood
RECURSIVE Compress(_, _, _, _)
Compress(converted, k, inserted, value) ==
    IF k > Len(converted) THEN <<>>
    ELSE IF IsPaddingSide(converted[k].prop)
         THEN (IF inserted THEN <<>>
               ELSE <<[prop |-> <<"p","a","d","d","i","n","g">>, value |-> value]>>)
                \o Compress(converted, k + 1, TRUE, value)
         ELSE <<converted[k]>> \o Compress(converted, k + 1, inserted, value)

\* decls.map(d => `${d.prop}:${d.value}`).join("; ")
RECURSIVE JoinDecls(_, _)
JoinDecls(decls, k) ==
    IF k > Len(decls) THEN <<>>
    ELSE decls[k].prop \o <<":">> \o decls[k].value
           \o (IF k < Len(decls) THEN <<";", " ">> ELSE <<>>)
           \o JoinDecls(decls, k + 1)

normalizeInlineStyle(style, basePx, removeWidth) ==
    IF style = <<>> THEN [style |-> style, changed |-> FALSE]
    ELSE LET decls == Call("ParseDecls", <<Call("SplitOn", <<style, ";">>), 1>>)
             converted == Call("ConvertDecls", <<decls, 1, basePx, removeWidth>>)
             changed == Call("ConvertChanged", <<decls, basePx, removeWidth>>)
             presentVals == Call("PresentVals", <<converted, 1>>)
             allEqual == \A k \in 1..Len(presentVals) : presentVals[k] = presentVals[1]
         IN  IF Len(presentVals) >= MinPaddingSides /\ allEqual
             THEN [style |-> Call("JoinDecls", <<Call("Compress", <<converted, 1, FALSE, presentVals[1]>>), 1>>),
                   changed |-> changed \/ \E k \in 1..Len(converted) :
                                              IsPaddingSide(converted[k].prop)]
             ELSE [style |-> Call("JoinDecls", <<converted, 1>>), changed |-> changed]

-----------------------------------------------------------------------------
(* The issue ledger and the texts repairHtml writes.                       *)

createIssue_SnippetLost(partial) ==
    [ruleId |-> partial.ruleId,
     originalSnippet |-> partial.originalSnippet,
     fixedSnippet |-> Null,
     autoFixed |-> partial.autoFixed,
     needsManualReview |-> partial.needsManualReview,
     line |-> 0, column |-> 0, startOffset |-> 0, endOffset |-> 0]

\* createIssue: the location fields start at 0.  The constant fields of an
\* issue (codes, level, message, suggestion) are not part of the model.
createIssue(partial) ==
    [ruleId |-> partial.ruleId,
     originalSnippet |-> partial.originalSnippet,
     fixedSnippet |-> partial.fixedSnippet,
     autoFixed |-> partial.autoFixed,
     needsManualReview |-> partial.needsManualReview,
     line |-> 0, column |-> 0, startOffset |-> 0, endOffset |-> 0]

\* a || b for texts: b when a is undefined or empty
OrElse(a, b) == IF a = Null \/ a = <<>> THEN b ELSE a

DefaultFrameTitle == <<"U+FF08","U+8ACB","U+88DC","U+4E0A","U+9801","U+6846","U+6A19","U+984C","U+FF09">>
DefaultImgAlt == <<"U+FF08","U+8ACB","U+88DC","U+4E0A","U+5716","U+7247","U+66FF","U+4EE3","U+6587","U+5B57","U+FF09">>
DefaultLinkText == <<"U+FF08","U+8ACB","U+88DC","U+4E0A","U+93C8","U+7D50","U+6587","U+5B57","U+FF09">>
DefaultLinkEmptyTitle == <<"U+FF08","U+8ACB","U+88DC","U+4E0A","U+93C8","U+7D50","U+76EE","U+7684","U+FF09">>
DefaultNewWindowHint == <<"U+5728","U+65B0","U+8996","U+7A97","U+6253","U+958B","U+93C8","U+7D50">>
\* the full-width colon between the hint and the title
HintSeparator == <<"U+FF1A">>
\* the text whose presence in a frame placeholder asks for manual review
ReviewMark == <<"U+8ACB","U+88DC","U+4E0A">>

\* the alternatives of the new-window keyword expression (line 448), tested
\* with the i flag
NewWindowKeywords ==
    {<<"U+65B0","U+8996","U+7A97">>, <<"U+65B0","U+7A97","U+53E3">>, <<"U+53E6","U+958B">>, <<"U+53E6","U+958B","U+8996","U+7A97">>,
     <<"n","e","w"," ","w","i","n","d","o","w">>}

TitleAttr == <<"t","i","t","l","e">>
AltAttr == <<"a","l","t">>
ScopeAttr == <<"s","c","o","p","e">>
StyleAttr == <<"s","t","y","l","e">>
TargetAttr == <<"t","a","r","g","e","t">>

\* the result of a replace callback: the text it returns and the issues it pushes
Kept(t) == [out |-> t, issues |-> <<>>]

\* text.replace(expression, callback): the new text and the issues pushed,
\* given the matches and the callback's result for each
PassResult(text, spans, results) ==
    [text |-> Splice(text, spans, [k \in 1..Len(spans) |-> results[k].out]),
     issues |-> ConcatAll([k \in 1..Len(spans) |-> results[k].issues], 1)]

\* a pass whose rule is not enabled
Skipped(text) == [text |-> text, issues |-> <<>>]

-----------------------------------------------------------------------------
(* Pass 1: <iframe>/<frame> title.                                         *)

FrameCallback(t, cfg) ==
    LET title == Call("getAttr", <<t, TitleAttr>>) IN
    IF title = Null \/ Call("trim", <<title>>) = <<>>
    THEN LET placeholder == OrElse(cfg.placeholders.iframeTitle, DefaultFrameTitle)
             fixed == Call("addOrUpdateAttr", <<t, TitleAttr, placeholder>>)
         IN  [out |-> fixed,
              issues |-> <<Call("createIssue", <<
                  [ruleId |-> "frame-title", originalSnippet |-> t,
                   fixedSnippet |-> fixed, autoFixed |-> TRUE,
                   needsManualReview |-> Call("includes", <<placeholder, ReviewMark>>)]>>)>>]
    ELSE Kept(t)

FrameNames == <<<<"i","f","r","a","m","e">>, <<"f","r","a","m","e">>>>

FramePass(text, cfg) ==
    IF ~Call("ruleEnabled", <<cfg, "frame-title">>) THEN Skipped(text)
    ELSE LET spans == Call("FindTags", <<text, 1, FrameNames>>)
         IN  Call("PassResult", <<text, spans,
                 [k \in 1..Len(spans) |-> Call("FrameCallback", <<Span(text, spans[k]), cfg>>)]>>)

-----------------------------------------------------------------------------
(* Pass 2: <img> alt.                                                      *)

ImgNames == <<<<"i","m","g">>>>

ImgCallback_EmptyToo(t, cfg) ==
    LET alt == Call("getAttr", <<t, AltAttr>>) IN
    IF alt = Null \/ alt = <<>>
    THEN LET placeholder == OrElse(cfg.placeholders.imgAlt, DefaultImgAlt)
             fixed == Call("addOrUpdateAttr", <<t, AltAttr, placeholder>>)
         IN  [out |-> fixed,
              issues |-> <<Call("createIssue", <<
                  [ruleId |-> "img-alt", originalSnippet |-> t,
                   fixedSnippet |-> fixed, autoFixed |-> TRUE,
                   needsManualReview |-> TRUE]>>)>>]
    ELSE Kept(t)

ImgCallback(t, cfg) ==
    LET alt == Call("getAttr", <<t, AltAttr>>) IN
    IF alt = Null
    THEN LET placeholder == OrElse(cfg.placeholders.imgAlt, DefaultImgAlt)
             fixed == Call("addOrUpdateAttr", <<t, AltAttr, placeholder>>)
         IN  [out |-> fixed,
              issues |-> <<Call("createIssue", <<
                  [ruleId |-> "img-alt", originalSnippet |-> t,
                   fixedSnippet |-> fixed, autoFixed |-> TRUE,
                   needsManualReview |-> TRUE]>>)>>]
    ELSE Kept(t)

ImgPass(text, cfg) ==
    IF ~Call("ruleEnabled", <<cfg, "img-alt">>) THEN Skipped(text)
    ELSE LET spans == Call("FindTags", <<text, 1, ImgNames>>)
         IN  Call("PassResult", <<text, spans,
                 [k \in 1..Len(spans) |-> Call("ImgCallback", <<Span(text, spans[k]), cfg>>)]>>)

-----------------------------------------------------------------------------
(* Pass 3: links.                                                          *)

AName == <<"a">>
CloseA == <<"<","/","a",">">>
HrefLit == <<"h","r","e","f">>
BlankTarget == <<"_","b","l","a","n","k">>
TextSlot == <<"{","t","e","x","t","}">>

\* /<a\b[^>]*\bhref\s*=/i.test(open)
hasHref(open) ==
    \E q \in 1..Len(open) :
        /\ open[q] = "<"
        /\ Call("MatchLitCI", <<open, q + 1, AName>>)
        /\ Call("WordBoundary", <<open, q + 2>>)
        /\ \E p \in (q + 2)..Len(open) :
              /\ Call("MatchLitCI", <<open, p, HrefLit>>)
              /\ Call("WordBoundary", <<open, p>>)
              /\ \A j \in (q + 2)..(p - 1) : open[j] # ">"
              /\ LET e == SkipSpaces(open, p + Len(HrefLit))
                 IN  e <= Len(open) /\ open[e] = "="

\* the callback of the image replace inside a link
LinkImgCallback(imgTag, cfg) ==
    LET alt == Call("getAttr", <<imgTag, AltAttr>>) IN
    IF alt = Null \/ Call("trim", <<alt>>) = <<>>
    THEN LET placeholder == OrElse(cfg.placeholders.imgAlt, DefaultImgAlt)
             fixed == Call("addOrUpdateAttr", <<imgTag, AltAttr, placeholder>>)
         IN  [out |-> fixed,
              issues |-> <<Call("createIssue", <<
                  [ruleId |-> "img-alt", originalSnippet |-> imgTag,
                   fixedSnippet |-> fixed, autoFixed |-> TRUE,
                   needsManualReview |-> TRUE]>>)>>]
    ELSE Kept(imgTag)

\* inner.replace(/<img\b[^>]*>/gi, ...) of the link pass (lines 288-312)
LinkImages(inner, cfg) ==
    IF ~Call("ruleEnabled", <<cfg, "img-alt">>) THEN Skipped(inner)
    ELSE LET spans == Call("FindTags", <<inner, 1, ImgNames>>)
         IN  Call("PassResult", <<inner, spans,
                 [k \in 1..Len(spans) |-> Call("LinkImgCallback", <<Span(inner, spans[k]), cfg>>)]>>)

\* the accessible name the link pass computes (lines 317-324)
LinkName(text, inner) ==
    IF text # <<>> THEN text
    ELSE LET imgs == Call("FindTags", <<inner, 1, ImgNames>>) IN
         IF imgs = <<>> THEN <<>>
         ELSE LET alt == Call("getAttr", <<Span(inner, imgs[1]), AltAttr>>)
              IN  IF alt = Null THEN <<>> ELSE Call("trim", <<alt>>)

\* what the callback of the link replace computes before it branches:
\* the opening tag, the content, the content with its images fixed, the
\* image issues pushed, whether the anchor has an href, the accessible name
LinkParts(full, cfg) ==
    LET g == Call("TagEndAt", <<full, 1, <<AName>>>>)
        open == SubSeq(full, 1, g)
        rest == SubSeq(full, g + 1, Len(full))
        c == IndexOfCI(rest, 1, CloseA)
        inner0 == SubSeq(rest, 1, c - 1) \o SubSeq(rest, c + Len(CloseA), Len(rest))
        imgs == Call("LinkImages", <<inner0, cfg>>)
    IN  [open |-> open,
         inner0 |-> inner0,
         inner |-> imgs.text,
         imgIssues |-> imgs.issues,
         hasHref |-> Call("hasHref", <<open>>),
         linkName |-> Call("LinkName", <<Call("stripTags", <<inner0>>), imgs.text>>)]

\* lines 326-353: the link has no accessible name
EmptyLinkBranch_TitleForced(full, open, cfg) ==
    LET textPlaceholder == OrElse(cfg.placeholders.linkText, DefaultLinkText)
        titlePlaceholder == OrElse(cfg.placeholders.linkEmptyTitle, DefaultLinkEmptyTitle)
        fixedOpen == addOrUpdateAttr_Overwrite(open, TitleAttr, titlePlaceholder)
        fixedFull == fixedOpen \o textPlaceholder \o CloseA
    IN  [out |-> fixedFull,
         issues |-> IF Call("ruleEnabled", <<cfg, "link-text">>)
                    THEN <<Call("createIssue", <<
                             [ruleId |-> "link-text", originalSnippet |-> full,
                              fixedSnippet |-> fixedFull, autoFixed |-> TRUE,
                              needsManualReview |-> TRUE]>>)>>
                    ELSE <<>>]

EmptyLinkBranch(full, open, cfg) ==
    LET textPlaceholder == OrElse(cfg.placeholders.linkText, DefaultLinkText)
        titlePlaceholder == OrElse(cfg.placeholders.linkEmptyTitle, DefaultLinkEmptyTitle)
        fixedOpen == Call("addOrUpdateAttr", <<open, TitleAttr, titlePlaceholder>>)
        fixedFull == fixedOpen \o textPlaceholder \o CloseA
    IN  [out |-> fixedFull,
         issues |-> IF Call("ruleEnabled", <<cfg, "link-text">>)
                    THEN <<Call("createIssue", <<
                             [ruleId |-> "link-text", originalSnippet |-> full,
                              fixedSnippet |-> fixedFull, autoFixed |-> TRUE,
                              needsManualReview |-> TRUE]>>)>>
                    ELSE <<>>]

NewWindowHint(cfg) == OrElse(cfg.placeholders.newWindowHint, DefaultNewWindowHint)

\* lines 362-386 and 423-442: blank target, no title: the hint and the
\* accessible name become the title
HintTitleBranch(full, open, inner, linkName, cfg) ==
    LET merged == NewWindowHint(cfg) \o HintSeparator \o linkName
        fixedOpen == Call("addOrUpdateAttr", <<open, TitleAttr, merged>>)
        fixedFull == fixedOpen \o inner \o CloseA
    IN  [out |-> fixedFull,
         issues |-> <<Call("createIssue", <<
                        [ruleId |-> "link-new-window", originalSnippet |-> full,
                         fixedSnippet |-> fixedFull, autoFixed |-> TRUE,
                         needsManualReview |-> FALSE]>>)>>]

\* the title branch filing a link-new-window issue as well when it merges the
\* hint
LinkTitleBranch_HintIssueToo(full, open, inner, linkName, isBlank, cfg) ==
    LET titleText == IF OrElse(cfg.placeholders.linkTitle, <<>>) # <<>>
                     THEN Call("ReplaceAllLit", <<cfg.placeholders.linkTitle, TextSlot, linkName>>)
                     ELSE linkName
        fixedOpen == Call("addOrUpdateAttr", <<open, TitleAttr, titleText>>)
        fixedFull == fixedOpen \o inner \o CloseA
        merged == NewWindowHint(cfg) \o HintSeparator \o titleText
        mergedOpen == Call("addOrUpdateAttr", <<open, TitleAttr, merged>>)
        mergedFull == mergedOpen \o inner \o CloseA
        titleIssue == Call("createIssue", <<
                        [ruleId |-> "link-title", originalSnippet |-> full,
                         fixedSnippet |-> fixedFull, autoFixed |-> TRUE,
                         needsManualReview |-> FALSE]>>)
        hintIssue == Call("createIssue", <<
                        [ruleId |-> "link-new-window", originalSnippet |-> full,
                         fixedSnippet |-> mergedFull, autoFixed |-> TRUE,
                         needsManualReview |-> FALSE]>>)
    IN  IF isBlank /\ Call("ruleEnabled", <<cfg, "link-new-window">>)
        THEN [out |-> mergedFull, issues |-> <<titleIssue, hintIssue>>]
        ELSE [out |-> fixedFull, issues |-> <<titleIssue>>]

\* lines 388-420: link-title enabled, no title
LinkTitleBranch(full, open, inner, linkName, isBlank, cfg) ==
    LET titleText == IF OrElse(cfg.placeholders.linkTitle, <<>>) # <<>>
                     THEN Call("ReplaceAllLit", <<cfg.placeholders.linkTitle, TextSlot, linkName>>)
                     ELSE linkName
        fixedOpen == Call("addOrUpdateAttr", <<open, TitleAttr, titleText>>)
        fixedFull == fixedOpen \o inner \o CloseA
        merged == NewWindowHint(cfg) \o HintSeparator \o titleText
        mergedOpen == Call("addOrUpdateAttr", <<open, TitleAttr, merged>>)
    IN  [out |-> IF isBlank /\ Call("ruleEnabled", <<cfg, "link-new-window">>)
                 THEN mergedOpen \o inner \o CloseA
                 ELSE fixedFull,
         issues |-> <<Call("createIssue", <<
                        [ruleId |-> "link-title", originalSnippet |-> full,
                         fixedSnippet |-> fixedFull, autoFixed |-> TRUE,
                         needsManualReview |-> FALSE]>>)>>]

\* the keyword test of line 448
HasNewWindowWording(t) == \E kw \in NewWindowKeywords : IndexOfCI(t, 1, kw) # 0

\* lines 444-469: blank target and a title without new-window wording, or
\* the anchor is returned as it was matched
ExistingTitleBranch(full, open, inner, title, isBlank, cfg) ==
    LET currentTitle == IF title = Null THEN <<>> ELSE Call("trim", <<title>>)
        merged == NewWindowHint(cfg) \o HintSeparator \o currentTitle
        fixedOpen == Call("addOrUpdateAttr", <<open, TitleAttr, merged>>)
        fixedFull == fixedOpen \o inner \o CloseA
    IN  IF /\ isBlank
           /\ Call("ruleEnabled", <<cfg, "link-new-window">>)
           /\ currentTitle # <<>>
           /\ ~Call("HasNewWindowWording", <<currentTitle>>)
        THEN [out |-> fixedFull,
              issues |-> <<Call("createIssue", <<
                             [ruleId |-> "link-new-window", originalSnippet |-> full,
                              fixedSnippet |-> fixedFull, autoFixed |-> TRUE,
                              needsManualReview |-> FALSE]>>)>>]
        ELSE Kept(full)

\* the branch of the link callback taken for an anchor with these parts
LinkBranch(full, parts, cfg) ==
    LET target == Call("getAttr", <<parts.open, TargetAttr>>)
        isBlank == target # Null /\ Call("toLowerCase", <<target>>) = BlankTarget
        title == Call("getAttr", <<parts.open, TitleAttr>>)
        noTitle == title = Null \/ Call("trim", <<title>>) = <<>>
    IN  IF parts.linkName = <<>> THEN "empty"
        ELSE IF /\ isBlank /\ Call("ruleEnabled", <<cfg, "link-new-window">>) /\ noTitle
                /\ ~Call("ruleEnabled", <<cfg, "link-title">>) THEN "hint"
        ELSE IF Call("ruleEnabled", <<cfg, "link-title">>) /\ noTitle THEN "title"
        ELSE IF isBlank /\ Call("ruleEnabled", <<cfg, "link-new-window">>) /\ noTitle THEN "hint"
        ELSE "existing"

\* the callback of the link replace (lines 278-470)
LinkCallback(full, cfg) ==
    LET parts == Call("LinkParts", <<full, cfg>>)
        target == Call("getAttr", <<parts.open, TargetAttr>>)
        isBlank == target # Null /\ Call("toLowerCase", <<target>>) = BlankTarget
        title == Call("getAttr", <<parts.open, TitleAttr>>)
        branch == Call("LinkBranch", <<full, parts, cfg>>)
        taken ==
            CASE branch = "empty" -> Call("EmptyLinkBranch", <<full, parts.open, cfg>>)
              [] branch = "hint" ->
                    Call("HintTitleBranch", <<full, parts.open, parts.inner, parts.linkName, cfg>>)
              [] branch = "title" ->
                    Call("LinkTitleBranch", <<full, parts.open, parts.inner, parts.linkName,
                                    isBlank, cfg>>)
              [] OTHER ->
                    Call("ExistingTitleBranch", <<full, parts.open, parts.inner, title, isBlank, cfg>>)
    IN  IF ~parts.hasHref THEN Kept(full)
        ELSE [out |-> taken.out, issues |-> parts.imgIssues \o taken.issues]

LinkPass(text, cfg) ==
    LET spans == Call("FindElements", <<text, 1, AName>>)
    IN  Call("PassResult", <<text, spans,
            [k \in 1..Len(spans) |-> Call("LinkCallback", <<Span(text, spans[k]), cfg>>)]>>)

-----------------------------------------------------------------------------
(* Passes 4 and 4.5: table row headers and <th> scope.                     *)

TrName == <<"t","r">>
TdName == <<"t","d">>
ThNames == <<<<"t","h">>>>
RowScope == <<"r","o","w">>
ColScope == <<"c","o","l">>

BasePx(cfg) == IF cfg.basePx.given THEN cfg.basePx.value ELSE DefaultBasePx

RemoveWidth(cfg) == IF cfg.removeWidth.given THEN cfg.removeWidth.value ELSE TRUE

\* the callback of the row replace (lines 473-512)
RowCallback(tr, cfg) ==
    LET m == Call("FirstElement", <<tr, 1, TdName>>) IN
    IF m.start = 0 THEN Kept(tr)
    ELSE LET firstTd == Span(tr, m)
             open == SubSeq(tr, m.start, m.openEnd)
             inner == SubSeq(tr, m.openEnd + 1, m.closeStart - 1)
             text == Call("stripTags", <<inner>>)
             thOpen1 == Call("addOrUpdateAttr", <<<<"<","t","h">> \o SubSeq(open, 4, Len(open)),
                                        ScopeAttr, RowScope>>)
             style == Call("getAttr", <<thOpen1, StyleAttr>>)
             norm == Call("normalizeInlineStyle", <<style, BasePx(cfg), RemoveWidth(cfg)>>)
             thOpen == IF style # Null /\ style # <<>> /\ norm.changed
                       THEN Call("addOrUpdateAttr", <<thOpen1, StyleAttr, norm.style>>)
                       ELSE thOpen1
             th == thOpen \o inner \o <<"<","/","t","h",">">>
         IN  IF text = <<>> THEN Kept(tr)
             ELSE [out |-> Call("ReplaceFirst", <<tr, firstTd, th>>),
                   issues |-> <<Call("createIssue", <<
                       [ruleId |-> "table-row-header", originalSnippet |-> firstTd,
                        fixedSnippet |-> th, autoFixed |-> TRUE,
                        needsManualReview |-> FALSE]>>)>>]

RowPass(text, cfg) ==
    IF ~Call("ruleEnabled", <<cfg, "table-row-header">>) THEN Skipped(text)
    ELSE LET spans == Call("FindElements", <<text, 1, TrName>>)
         IN  Call("PassResult", <<text, spans,
                 [k \in 1..Len(spans) |-> Call("RowCallback", <<Span(text, spans[k]), cfg>>)]>>)

ThCallback_OnlyMissing(t, cfg) ==
    LET scope == Call("getAttr", <<t, ScopeAttr>>) IN
    IF scope # Null THEN Kept(t)
    ELSE LET fixed == Call("addOrUpdateAttr", <<t, ScopeAttr, ColScope>>)
         IN  [out |-> fixed,
              issues |-> <<Call("createIssue", <<
                  [ruleId |-> "th-scope", originalSnippet |-> t,
                   fixedSnippet |-> fixed, autoFixed |-> TRUE,
                   needsManualReview |-> FALSE]>>)>>]

\* the callback of the <th> replace (lines 515-535)
ThCallback(t, cfg) ==
    LET scope == Call("getAttr", <<t, ScopeAttr>>) IN
    IF scope # Null /\ scope # <<>> /\ Call("trim", <<scope>>) # <<>> THEN Kept(t)
    ELSE LET fixed == Call("addOrUpdateAttr", <<t, ScopeAttr, ColScope>>)
         IN  [out |-> fixed,
              issues |-> <<Call("createIssue", <<
                  [ruleId |-> "th-scope", originalSnippet |-> t,
                   fixedSnippet |-> fixed, autoFixed |-> TRUE,
                   needsManualReview |-> FALSE]>>)>>]

ThScopePass(text, cfg) ==
    IF ~Call("ruleEnabled", <<cfg, "th-scope">>) THEN Skipped(text)
    ELSE LET spans == Call("FindTags", <<text, 1, ThNames>>)
         IN  Call("PassResult", <<text, spans,
                 [k \in 1..Len(spans) |-> Call("ThCallback", <<Span(text, spans[k]), cfg>>)]>>)

-----------------------------------------------------------------------------
(* Pass 5: inline styles.                                                  *)

\* \bstyle\s*=\s*("([^"]*)"|'([^']*)') tried at position i: the span of the
\* match and of the quoted value, or zeros
StyleAttrAt(s, i) ==
    IF ~(Call("MatchLitCI", <<s, i, StyleAttr>>) /\ Call("WordBoundary", <<s, i>>)) THEN NoMatch
    ELSE LET eq == SkipSpaces(s, i + Len(StyleAttr)) IN
         IF ~(eq <= Len(s) /\ s[eq] = "=") THEN NoMatch
         ELSE LET v == SkipSpaces(s, eq + 1)
                  q == IF v <= Len(s) /\ s[v] \in {"\"", "'"}
                       THEN IndexOfChar(s, v + 1, s[v]) ELSE 0
              IN  IF q = 0 THEN NoMatch
                  ELSE [start |-> i, end |-> q, vstart |-> v + 1, vend |-> q - 1]

RECURSIVE FindStyleAttrs(_, _)
FindStyleAttrs(s, i) ==
    LET j == First({p \in i..Len(s) : Call("StyleAttrAt", <<s, p>>).start # 0}) IN
    IF j = 0 THEN <<>>
    ELSE LET m == Call("StyleAttrAt", <<s, j>>)
         IN  <<m>> \o FindStyleAttrs(s, m.end + 1)

StyleCallback_AlwaysFiles(text, m, cfg) ==
    LET whole == Span(text, m)
        raw == SubSeq(text, m.vstart, m.vend)
        norm == Call("normalizeInlineStyle", <<raw, BasePx(cfg), RemoveWidth(cfg)>>)
        quote == IF Call("MatchLit", <<whole, 1, StyleAttr \o <<"=", "'">>>>) THEN <<"'">> ELSE <<"\"">>
    IN  [out |-> IF norm.changed THEN StyleAttr \o <<"=">> \o quote \o norm.style \o quote
                 ELSE whole,
         issues |-> <<Call("createIssue", <<
             [ruleId |-> "css-relative-units",
              originalSnippet |-> StyleAttr \o <<"=", "\"">> \o raw \o <<"\"">>,
              fixedSnippet |-> StyleAttr \o <<"=", "\"">> \o norm.style \o <<"\"">>,
              autoFixed |-> TRUE, needsManualReview |-> FALSE]>>)>>]

\* the callback of the inline style replace (lines 538-558) for match m of text
StyleCallback(text, m, cfg) ==
    LET whole == Span(text, m)
        raw == SubSeq(text, m.vstart, m.vend)
        norm == Call("normalizeInlineStyle", <<raw, BasePx(cfg), RemoveWidth(cfg)>>)
        quote == IF Call("MatchLit", <<whole, 1, StyleAttr \o <<"=", "'">>>>) THEN <<"'">> ELSE <<"\"">>
    IN  IF ~norm.changed THEN Kept(whole)
        ELSE [out |-> StyleAttr \o <<"=">> \o quote \o norm.style \o quote,
              issues |-> <<Call("createIssue", <<
                  [ruleId |-> "css-relative-units",
                   originalSnippet |-> StyleAttr \o <<"=", "\"">> \o raw \o <<"\"">>,
                   fixedSnippet |-> StyleAttr \o <<"=", "\"">> \o norm.style \o <<"\"">>,
                   autoFixed |-> TRUE, needsManualReview |-> FALSE]>>)>>]

StylePass(text, cfg) ==
    IF ~Call("ruleEnabled", <<cfg, "css-relative-units">>) THEN Skipped(text)
    ELSE LET spans == Call("FindStyleAttrs", <<text, 1>>)
         IN  Call("PassResult", <<text, spans,
                 [k \in 1..Len(spans) |-> Call("StyleCallback", <<text, spans[k], cfg>>)]>>)

-----------------------------------------------------------------------------
(* Pass 6: <style> blocks.                                                 *)

StyleName == <<"s","t","y","l","e">>

\* font-size\s*:\s*([\d.]+)\s*unit\s*; tried at position i: the span of the
\* number and the end of the match, or zeros
FontSizeAt(css, i, unit) ==
    LET none == [numStart |-> 0, numEnd |-> 0, end |-> 0] IN
    IF ~Call("MatchLitCI", <<css, i, FontSizeProp>>) THEN none
    ELSE LET c == SkipSpaces(css, i + Len(FontSizeProp)) IN
         IF ~(c <= Len(css) /\ css[c] = ":") THEN none
         ELSE LET n == SkipSpaces(css, c + 1)
                  j == NumberEnd(css, n)
                  u == SkipSpaces(css, j)
                  e == SkipSpaces(css, u + Len(unit))
              IN  IF j > n /\ Call("MatchLitCI", <<css, u, unit>>) /\ e <= Len(css) /\ css[e] = ";"
                  THEN [numStart |-> n, numEnd |-> j - 1, end |-> e]
                  ELSE none

\* css.replace(/font-size\s*:\s*([\d.]+)\s*unit\s*;/gi, n => `font-size: ${em};`)
RECURSIVE ConvertFontSize(_, _, _, _)
ConvertFontSize(css, i, unit, base) ==
    IF i > Len(css) THEN <<>>
    ELSE LET m == Call("FontSizeAt", <<css, i, unit>>) IN
         IF m.end # 0
         THEN FontSizeProp \o <<":", " ">>
                \o Call("UnitReplacement", <<Call("parseFloat", <<SubSeq(css, m.numStart, m.numEnd)>>), unit, base>>)
                \o <<";">> \o ConvertFontSize(css, m.end + 1, unit, base)
         ELSE <<css[i]>> \o ConvertFontSize(css, i + 1, unit, base)

\* the callback of the <style> replace (lines 561-582) for match m of text
StyleTagCallback(text, m, cfg) ==
    LET css == SubSeq(text, m.openEnd + 1, m.closeStart - 1)
        c1 == Call("ConvertFontSize", <<css, 1, Px, BasePx(cfg)>>)
        c2 == Call("ConvertFontSize", <<c1, 1, Pt, DefaultBasePt>>)
        converted == Call("ConvertFontSize", <<c2, 1, Rem, 1>>)
        marker == <<"<","s","t","y","l","e",">","U+2026","<","/","s","t","y","l","e",">">>
    IN  [out |-> <<"<","s","t","y","l","e",">">> \o converted
                   \o <<"<","/","s","t","y","l","e",">">>,
         issues |-> IF converted # css
                    THEN <<Call("createIssue", <<
                             [ruleId |-> "css-style-tag", originalSnippet |-> marker,
                              fixedSnippet |-> marker, autoFixed |-> TRUE,
                              needsManualReview |-> FALSE]>>)>>
                    ELSE <<>>]

StyleTagPass(text, cfg) ==
    IF ~Call("ruleEnabled", <<cfg, "css-style-tag">>) THEN Skipped(text)
    ELSE LET spans == Call("FindElements", <<text, 1, StyleName>>)
         IN  Call("PassResult", <<text, spans,
                 [k \in 1..Len(spans) |-> Call("StyleTagCallback", <<text, spans[k], cfg>>)]>>)

-----------------------------------------------------------------------------
(* Pass 7: form labels (report only).                                      *)

LabelName == <<"l","a","b","e","l">>
ForLit == <<"f","o","r">>
ControlNames ==
    <<<<"i","n","p","u","t">>, <<"s","e","l","e","c","t">>,
      <<"t","e","x","t","a","r","e","a">>>>

\* \bfor\s*=\s*("([^"\n]+)"|'([^'\n]+)'|([^\s>]+)) tried at position p: the
\* span of the value group and the end of the match, or zeros
ForValueAt(s, p) ==
    LET none == [vstart |-> 0, vend |-> 0, end |-> 0] IN
    IF ~(Call("MatchLitCI", <<s, p, ForLit>>) /\ Call("WordBoundary", <<s, p>>)) THEN none
    ELSE LET eq == SkipSpaces(s, p + Len(ForLit)) IN
         IF ~(eq <= Len(s) /\ s[eq] = "=") THEN none
         ELSE LET v == SkipSpaces(s, eq + 1)
                  q == IF v <= Len(s) /\ s[v] \in {"\"", "'"}
                       THEN IndexOfChar(s, v + 1, s[v]) ELSE 0
                  quoted == /\ q > v + 1
                            /\ \A j \in (v + 1)..(q - 1) : s[j] # "\n"
                  u == Call("UnquotedEnd", <<s, v>>)
              IN  IF quoted THEN [vstart |-> v + 1, vend |-> q - 1, end |-> q]
                  ELSE IF u > v THEN [vstart |-> v, vend |-> u - 1, end |-> u - 1]
                  ELSE none

\* labelRe tried at position i: [^>]* is greedy, so the last for= it can reach
LabelAt(s, i) ==
    LET none == [vstart |-> 0, vend |-> 0, end |-> 0]
        n0 == i + 1 + Len(LabelName)
        cands == {p \in n0..Len(s) :
                     /\ \A j \in n0..(p - 1) : s[j] # ">"
                     /\ Call("ForValueAt", <<s, p>>).end # 0}
    IN  IF ~(i <= Len(s) /\ s[i] = "<" /\ Call("MatchLitCI", <<s, i + 1, LabelName>>)
               /\ Call("WordBoundary", <<s, n0>>)) \/ cands = {}
        THEN none
        ELSE Call("ForValueAt", <<s, CHOOSE p \in cands : \A r \in cands : r <= p>>)

\* the ids collected by the labelRe.exec loop (lines 586-592)
RECURSIVE LabelForSet(_, _)
LabelForSet(s, i) ==
    LET j == First({p \in i..Len(s) : Call("LabelAt", <<s, p>>).end # 0}) IN
    IF j = 0 THEN {}
    ELSE LET m == Call("LabelAt", <<s, j>>)
             v == Call("trim", <<SubSeq(s, m.vstart, m.vend)>>)
         IN  (IF v # <<>> THEN {v} ELSE {}) \cup LabelForSet(s, m.end + 1)

NonBlank(v) == v # Null /\ Call("trim", <<v>>) # <<>>

FormCallback_AddsLabel(t, labels) ==
    LET type == Call("getAttr", <<t, <<"t","y","p","e">>>>)
        id == Call("getAttr", <<t, <<"i","d">>>>)
        hasLabel ==
            \/ NonBlank(Call("getAttr", <<t, <<"a","r","i","a","-","l","a","b","e","l">>>>))
            \/ NonBlank(Call("getAttr", <<t, <<"a","r","i","a","-","l","a","b","e","l","l","e","d","b","y">>>>))
            \/ NonBlank(id) /\ Call("trim", <<id>>) \in labels
    IN  IF (type # Null /\ Call("toLowerCase", <<type>>) = <<"h","i","d","d","e","n">>) \/ hasLabel
        THEN Kept(t)
        ELSE [out |-> Call("addOrUpdateAttr", <<t, <<"a","r","i","a","-","l","a","b","e","l">>, <<"?">>>>),
              issues |-> <<Call("createIssue", <<
                  [ruleId |-> "form-label", originalSnippet |-> t,
                   fixedSnippet |-> Null, autoFixed |-> FALSE,
                   needsManualReview |-> TRUE]>>)>>]

\* the callback of the control replace (lines 594-621): every branch returns
\* the tag it was given
FormCallback(t, labels) ==
    LET type == Call("getAttr", <<t, <<"t","y","p","e">>>>)
        id == Call("getAttr", <<t, <<"i","d">>>>)
        hasLabel ==
            \/ NonBlank(Call("getAttr", <<t, <<"a","r","i","a","-","l","a","b","e","l">>>>))
            \/ NonBlank(Call("getAttr", <<t, <<"a","r","i","a","-","l","a","b","e","l","l","e","d","b","y">>>>))
            \/ NonBlank(id) /\ Call("trim", <<id>>) \in labels
    IN  IF (type # Null /\ Call("toLowerCase", <<type>>) = <<"h","i","d","d","e","n">>) \/ hasLabel
        THEN Kept(t)
        ELSE [out |-> t,
              issues |-> <<Call("createIssue", <<
                  [ruleId |-> "form-label", originalSnippet |-> t,
                   fixedSnippet |-> Null, autoFixed |-> FALSE,
                   needsManualReview |-> TRUE]>>)>>]

FormLabelPass(text, cfg) ==
    IF ~Call("ruleEnabled", <<cfg, "form-label">>) THEN Skipped(text)
    ELSE LET labels == Call("LabelForSet", <<text, 1>>)
             spans == Call("FindTags", <<text, 1, ControlNames>>)
         IN  Call("PassResult", <<text, spans,
                 [k \in 1..Len(spans) |-> Call("FormCallback", <<Span(text, spans[k]), labels>>)]>>)

-----------------------------------------------------------------------------
(* Pass 8: skip link (report only).                                        *)

\* /<(name1|name2)\b/i.test(s)
HasTagStart(s, names) ==
    \E i \in 1..Len(s) : \E k \in 1..Len(names) :
        /\ s[i] = "<"
        /\ Call("MatchLitCI", <<s, i + 1, names[k]>>)
        /\ Call("WordBoundary", <<s, i + 1 + Len(names[k])>>)

\* the quoted targets of the skip-link expressions, tested with the i flag
SkipTargets ==
    {<<"\"","#","m","a","i","n","\"">>, <<"'","#","m","a","i","n","'">>, <<"\"","#","c","o","n","t","e","n","t","\"">>,
     <<"'","#","c","o","n","t","e","n","t","'">>, <<"\"","#","m","a","i","n","-","c","o","n","t","e","n","t","\"">>,
     <<"'","#","m","a","i","n","-","c","o","n","t","e","n","t","'">>}

\* the link texts of the first skip-link expression, tested with the i flag
SkipTexts ==
    {<<"U+8DF3","U+5230","U+4E3B","U+8981","U+5167","U+5BB9">>,
     <<"U+8DF3","U+81F3","U+4E3B","U+8981","U+5167","U+5BB9">>,
     <<"s","k","i","p"," ","t","o"," ","m","a","i","n">>, <<"s","k","i","p">>}

\* the positions just after <a\b[^>]*\bhref\s*=\s* for the matches of that
\* prefix in s
HrefValueStarts(s) ==
    LET starts == {q \in 1..Len(s) :
                      /\ s[q] = "<"
                      /\ Call("MatchLitCI", <<s, q + 1, AName>>)
                      /\ Call("WordBoundary", <<s, q + 2>>)}
        TagLimit(q) == LET g == IndexOfChar(s, q + 2, ">")
                       IN  IF g = 0 THEN Len(s) ELSE g
        hrefs == UNION {{p \in (q + 2)..TagLimit(q) :
                            Call("MatchLitCI", <<s, p, HrefLit>>) /\ Call("WordBoundary", <<s, p>>)} :
                        q \in starts}
        eqs == {SkipSpaces(s, p + Len(HrefLit)) : p \in hrefs}
    IN  {SkipSpaces(s, e + 1) : e \in {x \in eqs : x <= Len(s) /\ s[x] = "="}}

\* the second expression of hasSkip (line 629)
HasSkipTarget(s) ==
    \E v \in Call("HrefValueStarts", <<s>>) : \E t \in SkipTargets : Call("MatchLitCI", <<s, v, t>>)

\* the first expression of hasSkip (line 628): the href value (a quoted
\* target or a run of [^\s>]), \b, the rest of the tag, the link text, </a>
HasSkipText(s) ==
    \E v \in Call("HrefValueStarts", <<s>>) :
        LET ends == {v + Len(t) : t \in {x \in SkipTargets : Call("MatchLitCI", <<s, v, x>>)}}
                      \cup (v + 1)..UnquotedEnd(s, v)
        IN  \E e \in ends :
                /\ Call("WordBoundary", <<s, e>>)
                /\ LET g == IndexOfChar(s, e, ">")
                       x == SkipSpaces(s, g + 1)
                   IN  /\ g # 0
                       /\ \E t \in SkipTexts :
                             /\ Call("MatchLitCI", <<s, x, Call("toLowerCase", <<t>>)>>)
                             /\ Call("MatchLitCI", <<s, SkipSpaces(s, x + Len(t)), CloseA>>)

SkipLinkPass(text, cfg) ==
    IF ~Call("ruleEnabled", <<cfg, "skip-link">>) THEN Skipped(text)
    ELSE LET hasNavOrHeader == Call("HasTagStart", <<text, <<<<"n","a","v">>, <<"h","e","a","d","e","r">>>>>>)
             hasMain == Call("HasTagStart", <<text, <<<<"m","a","i","n">>>>>>)
             hasSkip == Call("HasSkipText", <<text>>) \/ Call("HasSkipTarget", <<text>>)
         IN  [text |-> text,
              issues |-> IF (hasNavOrHeader \/ hasMain) /\ ~hasSkip
                         THEN <<Call("createIssue", <<
                                  [ruleId |-> "skip-link",
                                   originalSnippet |-> <<"(","d","o","c","u","m","e","n","t",")">>,
                                   fixedSnippet |-> Null, autoFixed |-> FALSE,
                                   needsManualReview |-> TRUE]>>)>>
                         ELSE <<>>]

-----------------------------------------------------------------------------
(* Passes 9 and 10: colour contrast and fake buttons (report only).        *)

ColorLit == <<"c","o","l","o","r">>
BackgroundColorLit ==
    <<"b","a","c","k","g","r","o","u","n","d","-","c","o","l","o","r">>

\* the most colour warnings and fake-button warnings of one call
ColorCap == 5
FakeButtonCap == 10

\* colorStyleRe (line 651) tried at position i: the end of the match, or 0
ColorStyleAt(s, i) ==
    IF ~Call("MatchLitCI", <<s, i, StyleAttr>>) THEN 0
    ELSE LET eq == SkipSpaces(s, i + Len(StyleAttr)) IN
         IF ~(eq <= Len(s) /\ s[eq] = "=") THEN 0
         ELSE LET v == SkipSpaces(s, eq + 1)
                  q == IF v <= Len(s) /\ s[v] \in {"\"", "'"}
                       THEN IndexOfChar(s, v + 1, s[v]) ELSE 0
              IN  IF q # 0 /\ \E p \in (v + 1)..(q - 1) :
                                 /\ Call("MatchLitCI", <<s, p, ColorLit>>)
                                 /\ Call("WordBoundary", <<s, p>>)
                                 /\ LET c == SkipSpaces(s, p + Len(ColorLit))
                                    IN  c + 1 < q /\ s[c] = ":" /\ s[c + 1] # ";"
                  THEN q ELSE 0

\* /x\s*:/i.test(s) for a literal x
HasProperty(s, lit) ==
    \E i \in 1..Len(s) :
        /\ Call("MatchLitCI", <<s, i, lit>>)
        /\ LET c == SkipSpaces(s, i + Len(lit)) IN c <= Len(s) /\ s[c] = ":"

\* the matches of the colorStyleRe.exec loop that are not skipped, in order
RECURSIVE ColorWarnings(_, _)
ColorWarnings(s, i) ==
    LET j == First({p \in i..Len(s) : Call("ColorStyleAt", <<s, p>>) # 0}) IN
    IF j = 0 THEN <<>>
    ELSE LET e == Call("ColorStyleAt", <<s, j>>)
         IN  (IF Call("HasProperty", <<SubSeq(s, j, e), BackgroundColorLit>>) THEN <<>>
              ELSE <<SubSeq(s, j, e)>>) \o ColorWarnings(s, e + 1)

\* the first n elements of a sequence
FirstN(q, n) == SubSeq(q, 1, IF Len(q) < n THEN Len(q) ELSE n)

\* the colour pass without its cap
ColorContrastPass_Uncapped(text, cfg) ==
    IF ~Call("ruleEnabled", <<cfg, "color-contrast">>) THEN Skipped(text)
    ELSE LET found == Call("ColorWarnings", <<text, 1>>)
         IN  [text |-> text,
              issues |-> [k \in 1..Len(found) |-> Call("createIssue", <<
                             [ruleId |-> "color-contrast", originalSnippet |-> found[k],
                              fixedSnippet |-> Null, autoFixed |-> FALSE,
                              needsManualReview |-> TRUE]>>)]]

ColorContrastPass(text, cfg) ==
    IF ~Call("ruleEnabled", <<cfg, "color-contrast">>) THEN Skipped(text)
    ELSE LET found == FirstN(Call("ColorWarnings", <<text, 1>>), ColorCap)
         IN  [text |-> text,
              issues |-> [k \in 1..Len(found) |-> Call("createIssue", <<
                             [ruleId |-> "color-contrast", originalSnippet |-> found[k],
                              fixedSnippet |-> Null, autoFixed |-> FALSE,
                              needsManualReview |-> TRUE]>>)]]

OnclickLit == <<"o","n","c","l","i","c","k">>

\* \bonclick\s*=\s*("[^"]*"|'[^']*'|[^\s>]+)[^>]*> tried at position p: the
\* end of the match, or 0
OnclickAt(s, p) ==
    IF ~(Call("MatchLitCI", <<s, p, OnclickLit>>) /\ Call("WordBoundary", <<s, p>>)) THEN 0
    ELSE LET eq == SkipSpaces(s, p + Len(OnclickLit)) IN
         IF ~(eq <= Len(s) /\ s[eq] = "=") THEN 0
         ELSE LET v == SkipSpaces(s, eq + 1)
                  q == IF v <= Len(s) /\ s[v] \in {"\"", "'"}
                       THEN IndexOfChar(s, v + 1, s[v]) ELSE 0
                  afterQuoted == IF q = 0 THEN 0 ELSE IndexOfChar(s, q + 1, ">")
              IN  IF afterQuoted # 0 THEN afterQuoted
                  ELSE IF Call("UnquotedEnd", <<s, v>>) > v THEN IndexOfChar(s, v + 1, ">")
                  ELSE 0

\* fakeBtnRe (line 678) tried at position i: the end of the match, or 0
FakeButtonAt(s, i) ==
    IF ~(i <= Len(s) /\ s[i] = "<") THEN 0
    ELSE LET names == <<<<"d","i","v">>, <<"s","p","a","n">>>>
             hits == {k \in 1..Len(names) :
                         Call("MatchLitCI", <<s, i + 1, names[k]>>)
                           /\ Call("WordBoundary", <<s, i + 1 + Len(names[k])>>)}
         IN  IF hits = {} THEN 0
             ELSE LET n0 == i + 1 + Len(names[CHOOSE k \in hits : TRUE])
                      g == IndexOfChar(s, n0, ">")
                      cands == {p \in n0..(IF g = 0 THEN Len(s) ELSE g) :
                                   Call("OnclickAt", <<s, p>>) # 0}
                  IN  IF cands = {} THEN 0
                      ELSE Call("OnclickAt", <<s, CHOOSE p \in cands : \A r \in cands : r <= p>>)

\* /\brole\s*=\s*("button"|'button')/i.test(t)
HasButtonRole(t) ==
    \E i \in 1..Len(t) :
        /\ Call("MatchLitCI", <<t, i, <<"r","o","l","e">>>>)
        /\ Call("WordBoundary", <<t, i>>)
        /\ LET eq == SkipSpaces(t, i + 4)
               v == SkipSpaces(t, eq + 1)
           IN  /\ eq <= Len(t) /\ t[eq] = "="
               /\ \/ Call("MatchLitCI", <<t, v, <<"\"","b","u","t","t","o","n","\"">>>>)
                  \/ Call("MatchLitCI", <<t, v, <<"'","b","u","t","t","o","n","'">>>>)

\* /\btabindex\s*=\s*("0"|'0'|0)\b/i.test(t)
HasTabindexZero(t) ==
    \E i \in 1..Len(t) :
        /\ Call("MatchLitCI", <<t, i, <<"t","a","b","i","n","d","e","x">>>>)
        /\ Call("WordBoundary", <<t, i>>)
        /\ LET eq == SkipSpaces(t, i + 8)
               v == SkipSpaces(t, eq + 1)
           IN  /\ eq <= Len(t) /\ t[eq] = "="
               /\ \E z \in {<<"\"","0","\"">>, <<"'","0","'">>, <<"0">>} :
                     Call("MatchLit", <<t, v, z>>) /\ Call("WordBoundary", <<t, v + Len(z)>>)

\* the matches of the fakeBtnRe.exec loop that are not skipped, in order
RECURSIVE FakeButtons(_, _)
FakeButtons(s, i) ==
    LET j == First({p \in i..Len(s) : Call("FakeButtonAt", <<s, p>>) # 0}) IN
    IF j = 0 THEN <<>>
    ELSE LET e == Call("FakeButtonAt", <<s, j>>)
             t == SubSeq(s, j, e)
         IN  (IF Call("HasButtonRole", <<t>>) /\ Call("HasTabindexZero", <<t>>) THEN <<>> ELSE <<t>>)
               \o FakeButtons(s, e + 1)

FakeButtonPass(text, cfg) ==
    IF ~Call("ruleEnabled", <<cfg, "fake-button">>) THEN Skipped(text)
    ELSE LET found == FirstN(Call("FakeButtons", <<text, 1>>), FakeButtonCap)
         IN  [text |-> text,
              issues |-> [k \in 1..Len(found) |-> Call("createIssue", <<
                             [ruleId |-> "fake-button", originalSnippet |-> found[k],
                              fixedSnippet |-> Null, autoFixed |-> FALSE,
                              needsManualReview |-> TRUE]>>)]]

-----------------------------------------------------------------------------
(* Location back-fill and summary.                                         *)

\* the positions of the newlines of s
Newlines(s) == {j \in 1..Len(s) : s[j] = "\n"}

\* the length of the text after the last newline of s
LastLineLen(s) ==
    IF Newlines(s) = {} THEN Len(s) ELSE Len(s) - Greatest(Newlines(s))

\* the last occurrence of the snippet is taken, not the first
Locate_LastOccurrence(issue, original) ==
    LET snippet == IF issue.originalSnippet = Null THEN <<>> ELSE issue.originalSnippet
        found == {p \in 1..Len(original) : MatchLit(original, p, snippet)}
        at == IF found = {} THEN 0 ELSE Greatest(found)
        before == SubSeq(original, 1, at - 1)
    IN  IF snippet = <<>> \/ snippet = <<"(","d","o","c","u","m","e","n","t",")">> \/ at = 0
        THEN issue
        ELSE [issue EXCEPT !.startOffset = at - 1, !.endOffset = at - 1 + Len(snippet),
                           !.line = Cardinality(Newlines(before)) + 1,
                           !.column = LastLineLen(before) + 1]

\* computeLineCol(s, idx), idx counted from 0
computeLineCol(s, idx) ==
    IF idx <= 0 THEN [line |-> 1, column |-> 1]
    ELSE LET before == SubSeq(s, 1, idx)
         IN  [line |-> Cardinality(Newlines(before)) + 1,
              column |-> Call("LastLineLen", <<before>>) + 1]

\* the body of the location loop (lines 714-725) for one issue
Locate(issue, original) ==
    LET snippet == IF issue.originalSnippet = Null THEN <<>> ELSE issue.originalSnippet
        at == IndexOf(original, 1, snippet)
        idx == at - 1
        lc == Call("computeLineCol", <<original, idx>>)
    IN  IF issue.startOffset # 0 \/ issue.line # 0 THEN issue
        ELSE IF snippet = <<>> \/ snippet = <<"(","d","o","c","u","m","e","n","t",")">>
        THEN issue
        ELSE IF at = 0 THEN issue
        ELSE [issue EXCEPT !.startOffset = idx, !.endOffset = idx + Len(snippet),
                           !.line = lc.line, !.column = lc.column]

\* the number of issues that satisfy the flag
CountWhere(iss, flag) ==
    Cardinality({k \in 1..Len(iss) : iss[k][flag]})

\* the summary with every issue counted as fixed
Summary_AllCountedFixed(iss) ==
    [totalIssues |-> Len(iss),
     autoFixed |-> Len(iss),
     needsManualReview |-> CountWhere(iss, "needsManualReview")]

\* the summary of the result (lines 727-738)
Summary(iss) ==
    [totalIssues |-> Len(iss),
     autoFixed |-> CountWhere(iss, "autoFixed"),
     needsManualReview |-> CountWhere(iss, "needsManualReview")]

-----------------------------------------------------------------------------
(* repairHtml as one operator: the passes in their order, the location     *)
(* loop, the result.                                                       *)

PassNames ==
    <<"FramePass", "ImgPass", "LinkPass", "RowPass", "ThScopePass", "StylePass",
      "StyleTagPass", "FormLabelPass", "SkipLinkPass", "ColorContrastPass",
      "FakeButtonPass">>

\* pass k and the passes after it, applied to the working text and the ledger
\* (the length of the text is asked for first, so that the text is a value
\* before the pass reads it)
RECURSIVE RunPasses(_, _, _, _)
RunPasses(text, ledger, cfg, k) ==
    IF k > Len(PassNames) \/ Len(text) < 0 THEN [text |-> text, issues |-> ledger]
    ELSE LET r == Call(PassNames[k], <<text, cfg>>)
         IN  RunPasses(r.text, ledger \o r.issues, cfg, k + 1)

\* the body of repairHtml, the ledger starting as given
RunPipeline(h, cfg, ledger) ==
    LET done == RunPasses(h, ledger, cfg, 1)
        located == [k \in 1..Len(done.issues) |-> Call("Locate", <<done.issues[k], h>>)]
    IN  [originalHtml |-> h,
         repairedHtml |-> done.text,
         issues |-> located,
         summary |-> Call("Summary", <<located>>)]

\* the ledger is not created by the call: it is the ledger the last call left
repairHtml_LedgerRetained(h, cfg) ==
    RunPipeline(h, cfg, IF callLog = <<>> THEN <<>>
                        ELSE callLog[Len(callLog)].result.issues)

\* repairHtml(html, config): const issues = [] (line 222), then the pipeline
repairHtml(h, cfg) == RunPipeline(h, cfg, <<>>)

-----------------------------------------------------------------------------
(* The operators applied by name.                                          *)

Call(f, a) ==
    CASE f = "MatchLitCI" -> MatchLitCI(a[1], a[2], a[3])
      [] f = "getAttr" -> getAttr(a[1], a[2])
      [] f = "ruleEnabled" -> ruleEnabled(a[1], a[2])
      [] f = "createIssue" -> createIssue(a[1])
      [] f = "WordBoundary" -> WordBoundary(a[1], a[2])
      [] f = "trim" -> trim(a[1])
      [] f = "addOrUpdateAttr" -> addOrUpdateAttr(a[1], a[2], a[3])
      [] f = "PassResult" -> PassResult(a[1], a[2], a[3])
      [] f = "toLowerCase" -> toLowerCase(a[1])
      [] f = "FindTags" -> FindTags(a[1], a[2], a[3])
      [] f = "ConvertUnit" -> ConvertUnit(a[1], a[2], a[3], a[4])
      [] f = "MatchLit" -> MatchLit(a[1], a[2], a[3])
      [] f = "UnquotedEnd" -> UnquotedEnd(a[1], a[2])
      [] f = "TagEndAt" -> TagEndAt(a[1], a[2], a[3])
      [] f = "ElementAt" -> ElementAt(a[1], a[2], a[3])
      [] f = "FindElements" -> FindElements(a[1], a[2], a[3])
      [] f = "RemoveBetween" -> RemoveBetween(a[1], a[2], a[3], a[4])
      [] f = "NatToText" -> NatToText(a[1])
      [] f = "Rounded4" -> Rounded4(a[1], a[2])
      [] f = "hasHref" -> hasHref(a[1])
      [] f = "ConvertFontSize" -> ConvertFontSize(a[1], a[2], a[3], a[4])
      [] f = "AttrMatchAt" -> AttrMatchAt(a[1], a[2], a[3])
      [] f = "stripTags" -> stripTags(a[1])
      [] f = "parseFloat" -> parseFloat(a[1])
      [] f = "UnitReplacement" -> UnitReplacement(a[1], a[2], a[3])
      [] f = "UnitAt" -> UnitAt(a[1], a[2], a[3])
      [] f = "ConvertValue" -> ConvertValue(a[1], a[2], a[3])
      [] f = "JoinDecls" -> JoinDecls(a[1], a[2])
      [] f = "normalizeInlineStyle" -> normalizeInlineStyle(a[1], a[2], a[3])
      [] f = "StyleAttrAt" -> StyleAttrAt(a[1], a[2])
      [] f = "ForValueAt" -> ForValueAt(a[1], a[2])
      [] f = "LabelAt" -> LabelAt(a[1], a[2])
      [] f = "HasTagStart" -> HasTagStart(a[1], a[2])
      [] f = "HrefValueStarts" -> HrefValueStarts(a[1])
      [] f = "ColorStyleAt" -> ColorStyleAt(a[1], a[2])
      [] f = "OnclickAt" -> OnclickAt(a[1], a[2])
      [] f = "FakeButtonAt" -> FakeButtonAt(a[1], a[2])
      [] f = "includes" -> includes(a[1], a[2])
      [] f = "AttrMatchFrom" -> AttrMatchFrom(a[1], a[2], a[3])
      [] f = "StripQuotes" -> StripQuotes(a[1])
      [] f = "AttrReplacement" -> AttrReplacement(a[1], a[2], a[3])
      [] f = "SpliceFrom" -> SpliceFrom(a[1], a[2], a[3], a[4], a[5])
      [] f = "FirstElement" -> FirstElement(a[1], a[2], a[3])
      [] f = "ReplaceFirst" -> ReplaceFirst(a[1], a[2], a[3])
      [] f = "ReplaceAllLit" -> ReplaceAllLit(a[1], a[2], a[3])
      [] f = "Substitution" -> Substitution(a[1], a[2], a[3], a[4], a[5])
      [] f = "RemoveTags" -> RemoveTags(a[1], a[2])
      [] f = "ReplaceNbsp" -> ReplaceNbsp(a[1], a[2])
      [] f = "CollapseSpaces" -> CollapseSpaces(a[1], a[2])
      [] f = "DigitsToNat" -> DigitsToNat(a[1])
      [] f = "SplitOn" -> SplitOn(a[1], a[2])
      [] f = "ParseDecls" -> ParseDecls(a[1], a[2])
      [] f = "ConvertDecls" -> ConvertDecls(a[1], a[2], a[3], a[4])
      [] f = "ConvertChanged" -> ConvertChanged(a[1], a[2], a[3])
      [] f = "PresentVals" -> PresentVals(a[1], a[2])
      [] f = "Compress" -> Compress(a[1], a[2], a[3], a[4])
      [] f = "FrameCallback" -> FrameCallback(a[1], a[2])
      [] f = "ImgCallback" -> ImgCallback(a[1], a[2])
      [] f = "LinkImgCallback" -> LinkImgCallback(a[1], a[2])
      [] f = "LinkImages" -> LinkImages(a[1], a[2])
      [] f = "LinkName" -> LinkName(a[1], a[2])
      [] f = "LinkParts" -> LinkParts(a[1], a[2])
      [] f = "EmptyLinkBranch" -> EmptyLinkBranch(a[1], a[2], a[3])
      [] f = "HintTitleBranch" -> HintTitleBranch(a[1], a[2], a[3], a[4], a[5])
      [] f = "LinkTitleBranch" -> LinkTitleBranch(a[1], a[2], a[3], a[4], a[5], a[6])
      [] f = "HasNewWindowWording" -> HasNewWindowWording(a[1])
      [] f = "ExistingTitleBranch" -> ExistingTitleBranch(a[1], a[2], a[3], a[4], a[5], a[6])
      [] f = "LinkBranch" -> LinkBranch(a[1], a[2], a[3])
      [] f = "LinkCallback" -> LinkCallback(a[1], a[2])
      [] f = "RowCallback" -> RowCallback(a[1], a[2])
      [] f = "ThCallback" -> ThCallback(a[1], a[2])
      [] f = "FindStyleAttrs" -> FindStyleAttrs(a[1], a[2])
      [] f = "StyleCallback" -> StyleCallback(a[1], a[2], a[3])
      [] f = "FontSizeAt" -> FontSizeAt(a[1], a[2], a[3])
      [] f = "StyleTagCallback" -> StyleTagCallback(a[1], a[2], a[3])
      [] f = "LabelForSet" -> LabelForSet(a[1], a[2])
      [] f = "FormCallback" -> FormCallback(a[1], a[2])
      [] f = "HasSkipTarget" -> HasSkipTarget(a[1])
      [] f = "HasSkipText" -> HasSkipText(a[1])
      [] f = "HasProperty" -> HasProperty(a[1], a[2])
      [] f = "ColorWarnings" -> ColorWarnings(a[1], a[2])
      [] f = "HasButtonRole" -> HasButtonRole(a[1])
      [] f = "HasTabindexZero" -> HasTabindexZero(a[1])
      [] f = "FakeButtons" -> FakeButtons(a[1], a[2])
      [] f = "LastLineLen" -> LastLineLen(a[1])
      [] f = "computeLineCol" -> computeLineCol(a[1], a[2])
      [] f = "FramePass" -> FramePass(a[1], a[2])
      [] f = "ImgPass" -> ImgPass(a[1], a[2])
      [] f = "LinkPass" -> LinkPass(a[1], a[2])
      [] f = "RowPass" -> RowPass(a[1], a[2])
      [] f = "ThScopePass" -> ThScopePass(a[1], a[2])
      [] f = "StylePass" -> StylePass(a[1], a[2])
      [] f = "StyleTagPass" -> StyleTagPass(a[1], a[2])
      [] f = "FormLabelPass" -> FormLabelPass(a[1], a[2])
      [] f = "SkipLinkPass" -> SkipLinkPass(a[1], a[2])
      [] f = "ColorContrastPass" -> ColorContrastPass(a[1], a[2])
      [] f = "FakeButtonPass" -> FakeButtonPass(a[1], a[2])
      [] f = "Locate" -> Locate(a[1], a[2])
      [] f = "Summary" -> Summary(a[1])
      [] f = "RunPipeline" -> RunPipeline(a[1], a[2], a[3])
      [] f = "repairHtml" -> repairHtml(a[1], a[2])

-----------------------------------------------------------------------------
(* Bounds of the model.                                                    *)

\* the longest attribute value drawn for addOrUpdateAttr
MaxValLen == 2

\* the longest enabled or disabled list drawn for ruleEnabled
MaxListLen == 2

\* the largest whole number of px or pt drawn for emFromPx and emFromPt
MaxLength == 24

\* the most declarations of a style drawn for normalizeInlineStyle
MaxDecls == 4

\* the most calls of repairHtml made one after the other
MaxCalls == 3

\* the values of the variables a specification does not use
RepairIdle ==
    /\ html = <<>> /\ config = NoConfig /\ repaired = <<>> /\ issues = <<>>
    /\ prev = <<>> /\ prevIssues = <<>>

AttrIdle == tag = <<>> /\ attrName = <<>> /\ attrValue = <<>> /\ tagOut = Null

RuleIdle == ruleId = "" /\ ruleOut = FALSE

StyleIdle ==
    styleIn = <<>> /\ styleBase = 0 /\ styleRemoveWidth = FALSE /\ styleOut = Null

UnitIdle == lengthText = <<>> /\ unitName = "" /\ unitBase = 0 /\ emOut = Null

RerunIdle == firstRun = Null /\ secondRun = Null

CallsIdle == callLog = <<>> /\ catalog = BUILT_IN_RULES

-----------------------------------------------------------------------------
(* SpecAttr: addOrUpdateAttr applied to tag texts drawn from a bounded set. *)

RECURSIVE SeqsUpTo(_, _)
\* all texts over the characters of chars, of length at most n
SeqsUpTo(chars, n) ==
    IF n = 0 THEN {<<>>}
    ELSE LET shorter == SeqsUpTo(chars, n - 1)
         IN  shorter \cup {Append(t, c) : t \in shorter, c \in chars}

\* the characters attribute values are drawn from
ValueChars == {"x", " ", "\"", "'"}

\* value texts as they stand after the = sign: double-quoted, single-quoted, bare
ValueTexts ==
    LET contents == SeqsUpTo(ValueChars, MaxValLen)
    IN  {<<"\"">> \o c \o <<"\"">> : c \in contents}
          \cup {<<"'">> \o c \o <<"'">> : c \in contents}
          \cup contents

\* the attribute asked about, as written in the tag (or not written at all)
AltTexts ==
    {<<>>}
      \cup {<<" ">> \o n \o e \o v :
               n \in {<<"a","l","t">>, <<"A","L","T">>},
               e \in {<<"=">>, <<" ","="," ">>},
               v \in ValueTexts}

AttrTags ==
    {<<"<","i","m","g">> \o pre \o a \o post \o close :
        pre \in {<<>>, <<" ","t","i","t","l","e","=","\"","t","\"">>},
        a \in AltTexts,
        post \in {<<>>, <<" ","i","d","=","z">>},
        close \in {<<">">>, <<"/",">">>}}

InitAttr ==
    /\ pc = "attr"
    /\ tag \in AttrTags
    /\ attrName \in {<<"a","l","t">>, <<"t","i","t","l","e">>}
    /\ attrValue \in {<<"P">>, <<"$","$">>}
    /\ tagOut = Null
    /\ html = <<>> /\ config = NoConfig /\ repaired = <<>> /\ issues = <<>>
    /\ prev = <<>> /\ prevIssues = <<>>
    /\ ruleId = "" /\ ruleOut = FALSE
    /\ StyleIdle /\ UnitIdle /\ RerunIdle /\ CallsIdle

ApplyAttr ==
    /\ pc = "attr"
    /\ tagOut' = Call("addOrUpdateAttr", <<tag, attrName, attrValue>>)
    /\ pc' = "attrDone"
    /\ UNCHANGED <<tag, attrName, attrValue, repairVars, ruleVars,
                   styleVars, unitVars, rerunVars, callVars>>

NextAttr == ApplyAttr

SpecAttr == InitAttr /\ [][NextAttr]_vars

\* the text has a dollar sign followed by a dollar sign, an ampersand, a grave
\* accent or an apostrophe
HasDollarPattern(t) ==
    \E p \in 1..(Len(t) - 1) : t[p] = "$" /\ t[p + 1] \in {"$", "&", "`", "'"}

\* the value holds a character that is neither whitespace nor a quotation mark
HasSolidChar(v) == \E k \in 1..Len(v) : v[k] \notin SpaceChars \cup {"\"", "'"}

\* C1 as stated: a tag that carries the attribute with a non-empty value is
\* returned as it is; a value is written only when the attribute is absent or
\* present with an empty value, and then nothing but that attribute changes.
\* Empty is read as the engine tests it: nothing but whitespace.
C1_NonEmptyValueKept ==
    pc = "attrDone" =>
        LET v == getAttr(tag, attrName)
            m == AttrMatch(tag, attrName)
            written == AttrText(attrName, attrValue)
        IN  /\ (v # Null /\ trim(v) # <<>>) => tagOut = tag
            /\ tagOut # tag =>
                 /\ v = Null \/ trim(v) = <<>>
                 /\ v = Null =>
                      /\ SubSeq(tagOut, 1, Len(tag) - 1) = SubSeq(tag, 1, Len(tag) - 1)
                      /\ ~HasDollarPattern(attrValue) =>
                            tagOut = SubSeq(tag, 1, Len(tag) - 1) \o written \o <<">">>
                 /\ v # Null =>
                      tagOut = SubSeq(tag, 1, m.start - 1) \o written
                                 \o SubSeq(tag, m.end + 1, Len(tag))

\* C1 amended: a tag that carries the attribute with a value holding a
\* character that is neither whitespace nor a quotation mark is returned as it
\* is; a value is written only when the attribute is absent or its value holds
\* nothing but whitespace and quotation marks, and then the returned text is the
\* given text with the first occurrence of the attribute replaced by
\* name="value" (or with name="value" put before the closing >), every
\* character outside that occurrence unchanged.  Where the attribute is put
\* before the closing >, the value is written as given if it has no dollar
\* pattern; the text before the closing > is unchanged for every value.
C1_NonDestructive ==
    pc = "attrDone" =>
        LET v == getAttr(tag, attrName)
            m == AttrMatch(tag, attrName)
            written == AttrText(attrName, attrValue)
        IN  /\ (v # Null /\ HasSolidChar(v)) => tagOut = tag
            /\ tagOut # tag =>
                 /\ v = Null \/ ~HasSolidChar(v)
                 /\ v = Null =>
                      /\ SubSeq(tagOut, 1, Len(tag) - 1) = SubSeq(tag, 1, Len(tag) - 1)
                      /\ ~HasDollarPattern(attrValue) =>
                            tagOut = SubSeq(tag, 1, Len(tag) - 1) \o written \o <<">">>
                 /\ v # Null =>
                      tagOut = SubSeq(tag, 1, m.start - 1) \o written
                                 \o SubSeq(tag, m.end + 1, Len(tag))

\* a tag with a solid value went through addOrUpdateAttr, and so did a tag
\* with a blank value that was filled
C1_Witness ==
    /\ pc = "attrDone"
    /\ getAttr(tag, attrName) # Null
    /\ HasSolidChar(getAttr(tag, attrName))
    /\ tagOut = tag
    /\ attrName = <<"a","l","t">>

-----------------------------------------------------------------------------
(* SpecRule: ruleEnabled applied to configurations drawn from a bounded set. *)

\* the ids the enabled and disabled lists are drawn from
ListIds == {"img-alt", "link-text", "th-scope", "skip-link"}

RuleLists == {l \in SUBSET ListIds : Cardinality(l) <= MaxListLen}

RulesChoices ==
    {NoRules}
      \cup {[hasRules |-> TRUE, hasEnabled |-> he, enabled |-> e,
             hasDisabled |-> hd, disabled |-> d] :
               he \in BOOLEAN, hd \in BOOLEAN, e \in RuleLists, d \in RuleLists}

InitRule ==
    /\ pc = "rule"
    /\ \E r \in RulesChoices :
          /\ r.hasEnabled \/ r.enabled = {}
          /\ r.hasDisabled \/ r.disabled = {}
          /\ config = [NoConfig EXCEPT !.rules = r]
    /\ ruleId \in RuleIds
    /\ ruleOut = FALSE
    /\ html = <<>> /\ repaired = <<>> /\ issues = <<>>
    /\ prev = <<>> /\ prevIssues = <<>>
    /\ tag = <<>> /\ attrName = <<>> /\ attrValue = <<>> /\ tagOut = Null
    /\ StyleIdle /\ UnitIdle /\ RerunIdle /\ CallsIdle

ApplyRule ==
    /\ pc = "rule"
    /\ ruleOut' = Call("ruleEnabled", <<config, ruleId>>)
    /\ pc' = "ruleDone"
    /\ UNCHANGED <<ruleId, repairVars, attrVars,
                   styleVars, unitVars, rerunVars, callVars>>

NextRule == ApplyRule

SpecRule == InitRule /\ [][NextRule]_vars

\* C2 as stated: with an enabled list the rule is enabled exactly when its id
\* is in that list, whatever the disabled list holds; without one it is enabled
\* exactly when its id is not in the disabled list.
C2_EnabledListDecides ==
    pc = "ruleDone" =>
        IF config.rules.hasEnabled
        THEN ruleOut <=> ruleId \in config.rules.enabled
        ELSE ruleOut <=> ruleId \notin config.rules.disabled

\* C2 amended: a rule is enabled exactly when its id is not in the disabled
\* list and, if an enabled list is given, is in the enabled list: an id in both
\* lists is disabled.
C2_RuleEnablement ==
    pc = "ruleDone" =>
        (ruleOut <=>
            /\ ruleId \notin config.rules.disabled
            /\ config.rules.hasEnabled => ruleId \in config.rules.enabled)

\* ruleEnabled answered for an id that is in the enabled and the disabled list
C2_Witness ==
    /\ pc = "ruleDone"
    /\ config.rules.hasEnabled
    /\ ruleId \in config.rules.enabled
    /\ ruleId \in config.rules.disabled
    /\ ~ruleOut

-----------------------------------------------------------------------------
(* Spec: repairHtml applied to documents and configurations drawn from     *)
(* bounded sets, one action per pass of the pipeline.                      *)

\* the most copies of one element in a document
MaxRepeat == 6

RECURSIVE Repeat(_, _)
\* n copies of the text t
Repeat(t, n) == IF n = 0 THEN <<>> ELSE t \o Repeat(t, n - 1)

\* the parts anchors are put together from
AnchorHrefs == {<<>>, <<" ","h","r","e","f","=","\"","/","x","\"">>}
AnchorTargets == {<<>>, <<" ","t","a","r","g","e","t","=","\"","_","b","l","a","n","k","\"">>}
AnchorTitles ==
    {<<>>,
     <<" ","t","i","t","l","e","=","\"","\"">>,
     <<" ","t","i","t","l","e","=","\"","U+8AAA","U+660E","\"">>,
     <<" ","t","i","t","l","e","=","\"","U+53E6","U+958B","U+8996","U+7A97","\"">>}
AnchorContents ==
    {<<>>,
     <<"U+9023","U+7D50">>,
     <<"<","i","m","g"," ","s","r","c","=","\"","a",".","p","n","g","\"",">">>,
     <<"<","i","m","g"," ","a","l","t","=","\"","\"",">">>,
     <<"<","i","m","g"," ","a","l","t","=","\"","l","o","g","o","\"",">">>,
     <<"<","i","m","g"," ","a","l","t","=","\"","\"",">"," ","U+9023","U+7D50">>,
     <<"$","$">>}

Anchors ==
    {<<"<","a">> \o h \o g \o t \o <<">">> \o c \o CloseA :
        h \in AnchorHrefs, g \in AnchorTargets, t \in AnchorTitles,
        c \in AnchorContents}

\* the document of scenario C and the document repairHtml is to return for it
ScenarioC ==
    <<"<","p"," ","s","t","y","l","e","=","\"","f","o","n","t","-","s","i","z","e",":","1","6","p","x",";","w","i","d","t","h",":","2","0","0","p","x","\"",">","a","<","/","p",">">>
ScenarioCRepaired ==
    <<"<","p"," ","s","t","y","l","e","=","\"","f","o","n","t","-","s","i","z","e",":","1","e","m","\"",">","a","<","/","p",">">>

\* a document of three lines: two equal <th> tags on the second line, after
\* two spaces, and a style in single quotation marks on the third
LinesDocument ==
    <<"<","p",">","a","<","/","p",">","\n"," "," ","<","t","h",">","x","<","/","t","h",">","<","t","h",">","y","<","/","t","h",">","\n","<","b"," ","s","t","y","l","e","=","'","w","i","d","t","h",":","1","p","x","'",">","b","<","/","b",">">>

\* frames, images, table rows and cells, styled elements, style blocks
Elements ==
    {<<"<","i","f","r","a","m","e"," ","s","r","c","=","\"","a",".","h","t","m","l","\"",">","<","/","i","f","r","a","m","e",">">>,
     <<"<","i","f","r","a","m","e"," ","t","i","t","l","e","=","\"","\""," ","s","r","c","=","\"","a","\"",">","<","/","i","f","r","a","m","e",">">>,
     <<"<","f","r","a","m","e"," ","t","i","t","l","e","=","\"","m","e","n","u","\"",">">>,
     <<"<","i","m","g"," ","s","r","c","=","\"","l","o","g","o",".","p","n","g","\"",">">>,
     <<"<","i","m","g"," ","s","r","c","=","\"","a","\""," ","a","l","t","=","\"","\"",">">>,
     <<"<","I","M","G"," ","A","L","T","=","l","o","g","o",">">>,
     <<"<","i","m","g"," ","a","l","t",">">>,
     <<"<","p",">","a","<","/","p",">","<","i","m","g"," ","s","r","c","=","b",">","<","i","m","g"," ","a","l","t","=","'"," ","'",">">>,
     <<"<","t","h",">","N","a","m","e","<","/","t","h",">">>,
     <<"<","t","h"," ","s","c","o","p","e","=","\"","\"",">","N","a","m","e","<","/","t","h",">">>,
     <<"<","t","h"," ","s","c","o","p","e","=","\"","r","o","w","\"",">","N","a","m","e","<","/","t","h",">">>,
     <<"<","T","H"," ","S","C","O","P","E","=","c","o","l",">","N","<","/","T","H",">">>,
     <<"<","t","h","e","a","d",">","<","t","h"," ","s","c","o","p","e","=","'"," ","'",">","a","<","/","t","h",">","<","t","h",">","b","<","/","t","h",">","<","/","t","h","e","a","d",">">>,
     <<"<","t","r",">","<","t","d",">","N","a","m","e","<","/","t","d",">","<","t","d",">","1","<","/","t","d",">","<","/","t","r",">">>,
     <<"<","t","r",">","<","t","d",">"," ","<","/","t","d",">","<","t","d",">","x","<","/","t","d",">","<","/","t","r",">">>,
     <<"<","t","r",">","<","t","h",">","h","<","/","t","h",">","<","t","d",">","x","<","/","t","d",">","<","/","t","r",">">>,
     <<"<","t","r",">","<","t","d"," ","s","t","y","l","e","=","\"","w","i","d","t","h",":","1","0","0","p","x",";","f","o","n","t","-","s","i","z","e",":","1","2","p","x","\"",">","A","<","/","t","d",">","<","/","t","r",">">>,
     <<"<","p"," ","s","t","y","l","e","=","\"","f","o","n","t","-","s","i","z","e",":","1","2","p","x","\"",">","a","<","/","p",">">>,
     <<"<","p"," ","s","t","y","l","e","=","\"","f","o","n","t","-","s","i","z","e",":","9","p","t",";","w","i","d","t","h",":","5","0","p","x","\"",">","a","<","/","p",">">>,
     <<"<","t","d"," ","s","t","y","l","e","=","\"","p","a","d","d","i","n","g","-","t","o","p",":","1","p","x",";","p","a","d","d","i","n","g","-","l","e","f","t",":","2","p","x",";","p","a","d","d","i","n","g","-","r","i","g","h","t",":","3","p","x","\"",">","a","<","/","t","d",">">>,
     <<"<","s","t","y","l","e"," ","t","y","p","e","=","\"","t","e","x","t","/","c","s","s","\"",">","p","{","f","o","n","t","-","s","i","z","e",":","1","6","p","x",";","}","<","/","s","t","y","l","e",">">>,
     <<"<","s","t","y","l","e",">","p","{","f","o","n","t","-","s","i","z","e",":","1","2","p","t","}","<","/","s","t","y","l","e",">">>,
     ScenarioC,
     LinesDocument,
     <<"<","a"," ","h","r","e","f","=","\"","/","x","\"",">","<","i"," ","c","l","a","s","s","=","\"","i","c","o","n","\"",">","<","/","i",">","<","/","a",">">>,
     <<"<","s","t","y","l","e"," ","m","e","d","i","a","=","\"","p","r","i","n","t","\"",">","p","{","c","o","l","o","r",":","r","e","d","}","<","/","s","t","y","l","e",">">>,
     <<"<","s","t","y","l","e",">","a","{","f","o","n","t","-","s","i","z","e",":","1","2","p","t",";","c","o","l","o","r",":","r","e","d",";","F","O","N","T","-","S","I","Z","E"," ",":"," ","2","r","e","m"," ",";","}","b","{","f","o","n","t","-","s","i","z","e",":","1","0","p","x","}","<","/","s","t","y","l","e",">","<","p",">","x","<","/","p",">">>,
     <<"<","t","r",">","<","t","d",">","$","$","<","/","t","d",">","<","/","t","r",">">>,
     <<"<","t","r",">","<","t","d",">","<","/","t","d",">","<","t","d",">","&","n","b","s","p",";","<","/","t","d",">","<","/","t","r",">","<","t","r",">","<","t","d",">","a","<","/","t","d",">","<","t","d",">","b","<","/","t","d",">","<","/","t","r",">">>,
     <<"<","i","m","g"," ","s","r","c","=","\"","a","\"",">","\n","<","a"," ","h","r","e","f","=","\"","/","x","\"",">","\n","<","/","a",">","<","i","m","g"," ","s","r","c","=","\"","a","\"",">">>,
     <<"<","p"," ","S","T","Y","L","E"," ","="," ","'","h","e","i","g","h","t",":","1","0","p","x","'",">","a","<","/","p",">","<","b"," ","s","t","y","l","e","=","\"","c","o","l","o","r",":","r","e","d","\"",">","b","<","/","b",">">>}

\* form controls, landmarks, coloured text and clickable non-controls
AdvisoryElements ==
    {<<"<","i","n","p","u","t"," ","t","y","p","e","=","\"","t","e","x","t","\""," ","n","a","m","e","=","\"","q","\"",">">>,
     <<"<","i","n","p","u","t"," ","t","y","p","e","=","\"","h","i","d","d","e","n","\""," ","n","a","m","e","=","\"","h","\"",">">>,
     <<"<","i","n","p","u","t"," ","i","d","=","\"","n","\"",">","<","l","a","b","e","l"," ","f","o","r","=","\"","n","\"",">","N","<","/","l","a","b","e","l",">">>,
     <<"<","i","n","p","u","t"," ","a","r","i","a","-","l","a","b","e","l","=","\"","n","a","m","e","\"",">">>,
     <<"<","s","e","l","e","c","t"," ","i","d","=","\"","s","\"",">","<","/","s","e","l","e","c","t",">">>,
     <<"<","t","e","x","t","a","r","e","a"," ","t","i","t","l","e","=","\"","t","\"",">","<","/","t","e","x","t","a","r","e","a",">">>,
     <<"<","n","a","v",">","<","/","n","a","v",">">>,
     <<"<","m","a","i","n",">","<","/","m","a","i","n",">">>,
     <<"<","a"," ","h","r","e","f","=","\"","#","m","a","i","n","\"",">","U+8DF3","U+5230","U+4E3B","U+8981","U+5167","U+5BB9","<","/","a",">","<","n","a","v",">","<","/","n","a","v",">">>,
     <<"<","h","e","a","d","e","r",">","<","/","h","e","a","d","e","r",">","<","a"," ","h","r","e","f","=","#","t","o","p",">","S","k","i","p","<","/","a",">">>,
     <<"<","p",">","t","e","x","t","<","/","p",">">>,
     <<"<","s","p","a","n"," ","s","t","y","l","e","=","\"","c","o","l","o","r",":","r","e","d","\"",">","a","<","/","s","p","a","n",">">>,
     <<"<","s","p","a","n"," ","s","t","y","l","e","=","\"","c","o","l","o","r",":","r","e","d",";","b","a","c","k","g","r","o","u","n","d","-","c","o","l","o","r",":","#","f","f","f","\"",">","a","<","/","s","p","a","n",">">>,
     <<"<","d","i","v"," ","o","n","c","l","i","c","k","=","\"","g","o","(",")","\"",">","a","<","/","d","i","v",">">>,
     <<"<","d","i","v"," ","r","o","l","e","=","\"","b","u","t","t","o","n","\""," ","t","a","b","i","n","d","e","x","=","\"","0","\""," ","o","n","c","l","i","c","k","=","\"","g","o","(",")","\"",">","a","<","/","d","i","v",">">>,
     <<"<","d","i","v"," ","r","o","l","e","=","\"","b","u","t","t","o","n","\""," ","t","a","b","i","n","d","e","x","=","0"," ","o","n","c","l","i","c","k","=","\"","g","o","(",")","\"",">","a","<","/","d","i","v",">">>,
     <<"<","s","p","a","n"," ","o","n","c","l","i","c","k","=","g","o","(",")",">","a","<","/","s","p","a","n",">">>,
     <<"<","b","u","t","t","o","n"," ","o","n","c","l","i","c","k","=","\"","g","o","(",")","\"",">","a","<","/","b","u","t","t","o","n",">">>,
     <<"<","m","a","i","n",">","<","i","m","g"," ","s","r","c","=","\"","a","\"",">","<","i","n","p","u","t"," ","n","a","m","e","=","\"","q","\"",">","<","/","m","a","i","n",">">>}

\* the elements repeated to reach the caps of the warning passes
RepeatedElements ==
    {<<"<","b"," ","s","t","y","l","e","=","\"","c","o","l","o","r",":","r","e","d","\"",">">>,
     <<"<","t","h",">">>,
     <<"<","a"," ","h","r","e","f","=","\"","/","x","\"",">","<","/","a",">">>}

\* a coloured element and two clickable non-controls, to be repeated, and what
\* stands before the copies: a coloured element with a background colour and a
\* clickable <span> with a button role and tabindex 0, which are not reported
AdvisoryUnit ==
    <<"<","b"," ","s","t","y","l","e","=","\"","c","o","l","o","r",":","r","e","d","\"",">","<","d","i","v"," ","o","n","c","l","i","c","k","=","a",">","<","s","p","a","n"," ","o","n","c","l","i","c","k","=","b",">">>
AdvisoryLead ==
    <<"<","u"," ","s","t","y","l","e","=","'","c","o","l","o","r",":","b","l","u","e",";","b","a","c","k","g","r","o","u","n","d","-","c","o","l","o","r",":","#","f","f","f","'",">","<","s","p","a","n"," ","o","n","c","l","i","c","k","=","b"," ","r","o","l","e","=","\"","b","u","t","t","o","n","\""," ","t","a","b","i","n","d","e","x","=","0",">">>
AdvisoryDocument(n) == AdvisoryLead \o Repeat(AdvisoryUnit, n)

Documents ==
    Anchors \cup Elements \cup AdvisoryElements
      \cup {Repeat(e, n) : e \in RepeatedElements, n \in 2..MaxRepeat}
      \cup {AdvisoryDocument(n) : n \in (MaxRepeat - 2)..MaxRepeat}

\* configurations: rule lists
RuleSettings ==
    {NoRules}
      \cup {[NoRules EXCEPT !.hasRules = TRUE, !.hasDisabled = TRUE, !.disabled = d] :
               d \in {{"link-text"}, {"img-alt"}, {"link-title"}, {"css-relative-units"},
                      {"link-title", "link-new-window"},
                      {"th-scope", "frame-title", "table-row-header",
                       "css-relative-units", "css-style-tag", "form-label", "skip-link", "color-contrast",
                       "fake-button"}}}
      \cup {[NoRules EXCEPT !.hasRules = TRUE, !.hasEnabled = TRUE, !.enabled = e] :
               e \in {{"link-text", "img-alt"}, {"th-scope"}}}

\* configurations: placeholder texts (those of the README, which carry no
\* review mark, and a link title pattern)
CustomPlaceholders ==
    [linkTitle |-> <<"U+524D","U+5F80","U+FF1A","{","t","e","x","t","}">>,
     linkText |-> <<"U+3010","U+9700","U+4EBA","U+5DE5","U+88DC","U+4E0A","U+93C8","U+7D50","U+6587","U+5B57","U+3011">>,
     linkEmptyTitle |-> <<"U+3010","U+9700","U+4EBA","U+5DE5","U+88DC","U+4E0A","U+93C8","U+7D50","U+76EE","U+7684","U+3011">>,
     imgAlt |-> <<"U+3010","U+9700","U+4EBA","U+5DE5","U+88DC","U+4E0A","U+5716","U+7247","U+66FF","U+4EE3","U+6587","U+5B57","U+3011">>,
     iframeTitle |-> <<"U+3010","U+9700","U+4EBA","U+5DE5","U+88DC","U+4E0A","U+9801","U+6846","U+6A19","U+984C","U+3011">>,
     newWindowHint |-> <<"U+53E6","U+958B","U+65B0","U+8996","U+7A97">>]

Configs ==
    {[NoConfig EXCEPT !.rules = r] : r \in RuleSettings}
      \cup {[NoConfig EXCEPT !.placeholders = CustomPlaceholders],
            [NoConfig EXCEPT !.basePx = [given |-> TRUE, value |-> 10],
                             !.removeWidth = [given |-> TRUE, value |-> FALSE]],
            [NoConfig EXCEPT !.basePt = [given |-> TRUE, value |-> 10]]}

Init ==
    /\ pc = "frame"
    /\ html \in Documents
    /\ config \in Configs
    /\ repaired = html
    /\ issues = <<>>
    /\ prev = html /\ prevIssues = <<>>
    /\ tag = <<>> /\ attrName = <<>> /\ attrValue = <<>> /\ tagOut = Null
    /\ ruleId = "" /\ ruleOut = FALSE
    /\ StyleIdle /\ UnitIdle /\ RerunIdle /\ CallsIdle

\* one pass of the pipeline: the working text becomes the text the pass
\* returns, the issues the pass pushed are appended to the ledger
RunPass(from, to, result) ==
    /\ pc = from
    /\ repaired' = result.text
    /\ issues' = issues \o result.issues
    /\ prev' = repaired
    /\ prevIssues' = issues
    /\ pc' = to
    /\ UNCHANGED <<html, config, attrVars, ruleVars,
                   styleVars, unitVars, rerunVars, callVars>>

FrameStep == RunPass("frame", "img", Call("FramePass", <<repaired, config>>))
ImgStep == RunPass("img", "link", Call("ImgPass", <<repaired, config>>))
\* the link pass run on the text repairHtml was given instead of the text the
\* image pass left
LinkStep_OnOriginal == RunPass("link", "row", Call("LinkPass", <<html, config>>))
LinkStep == RunPass("link", "row", Call("LinkPass", <<repaired, config>>))
RowStep == RunPass("row", "th", Call("RowPass", <<repaired, config>>))
ThScopeStep == RunPass("th", "style", Call("ThScopePass", <<repaired, config>>))
StyleStep == RunPass("style", "styleTag", Call("StylePass", <<repaired, config>>))
StyleTagStep == RunPass("styleTag", "form", Call("StyleTagPass", <<repaired, config>>))
FormLabelStep == RunPass("form", "skip", Call("FormLabelPass", <<repaired, config>>))
SkipLinkStep == RunPass("skip", "color", Call("SkipLinkPass", <<repaired, config>>))
ColorContrastStep == RunPass("color", "fake", Call("ColorContrastPass", <<repaired, config>>))
FakeButtonStep == RunPass("fake", "locate", Call("FakeButtonPass", <<repaired, config>>))

\* lines 714-739: the locations are filled in and the result is returned
LocateStep ==
    /\ pc = "locate"
    /\ issues' = [k \in 1..Len(issues) |-> Call("Locate", <<issues[k], html>>)]
    /\ prev' = repaired
    /\ prevIssues' = issues
    /\ pc' = "done"
    /\ UNCHANGED <<html, config, repaired, attrVars, ruleVars,
                   styleVars, unitVars, rerunVars, callVars>>

Next ==
    \/ FrameStep \/ ImgStep \/ LinkStep \/ RowStep \/ ThScopeStep
    \/ StyleStep \/ StyleTagStep \/ FormLabelStep \/ SkipLinkStep
    \/ ColorContrastStep \/ FakeButtonStep \/ LocateStep

Spec == Init /\ [][Next]_vars

-----------------------------------------------------------------------------
(* Claims about repairHtml, stated over Spec.  A pass has just run when pc *)
(* names the pass after it; prev and prevIssues are the working text and   *)
(* the ledger as they were before it ran.                                  *)

\* the rule is enabled under the configuration of this call
RuleOn(id) == ruleEnabled(config, id)

\* the issues the pass that has just run appended to the ledger
NewIssues == SubSeq(issues, Len(prevIssues) + 1, Len(issues))

\* the rule that gates, as a whole, the pass that has just run
GateOf ==
    [img |-> "frame-title", link |-> "img-alt", th |-> "table-row-header",
     style |-> "th-scope", styleTag |-> "css-relative-units",
     form |-> "css-style-tag", skip |-> "form-label", color |-> "skip-link",
     fake |-> "color-contrast", locate |-> "fake-button"]

\* the rules that act inside the link pass
LinkRules == {"img-alt", "link-text", "link-title", "link-new-window"}

\* C3 as stated: a rule that is not enabled does not run.  No issue of the
\* ledger names a rule that is not enabled; a pass gated as a whole by a rule
\* that is not enabled leaves the text and the ledger as they were; the link
\* pass does not write the placeholder link text when link-text is not enabled,
\* and changes nothing when none of its rules is enabled.
C3_DisabledRuleDoesNotRun ==
    /\ \A k \in 1..Len(issues) : RuleOn(issues[k].ruleId)
    /\ (pc \in DOMAIN GateOf /\ ~RuleOn(GateOf[pc])) =>
           (repaired = prev /\ issues = prevIssues)
    /\ (pc = "row" /\ ~RuleOn("link-text")) =>
           LET placeholder == OrElse(config.placeholders.linkText, DefaultLinkText)
           IN  includes(repaired, placeholder) => includes(prev, placeholder)
    /\ (pc = "row" /\ \A id \in LinkRules : ~RuleOn(id)) =>
           (repaired = prev /\ issues = prevIssues)

\* the part of C3 that is about the ledger and the passes gated as a whole
C3_GatedPassesSkipped ==
    /\ \A k \in 1..Len(issues) : RuleOn(issues[k].ruleId)
    /\ (pc \in DOMAIN GateOf /\ ~RuleOn(GateOf[pc])) =>
           (repaired = prev /\ issues = prevIssues)

\* C4: every issue of the ledger with autoFixed = true has a fixedSnippet, and
\* every issue of a report-only rule (form-label, skip-link, color-contrast,
\* fake-button) has autoFixed = false; this holds after every pass and in the
\* result that is returned.
C4_LedgerInvariant ==
    \A k \in 1..Len(issues) :
        /\ issues[k].autoFixed => issues[k].fixedSnippet # Null
        /\ issues[k].ruleId \in {"form-label", "skip-link", "color-contrast", "fake-button"}
              => ~issues[k].autoFixed

\* a call has returned a ledger that holds a repaired finding and a reported one
C4_Witness ==
    /\ pc = "done"
    /\ \E k \in 1..Len(issues) : issues[k].autoFixed /\ issues[k].fixedSnippet # Null
    /\ \E k \in 1..Len(issues) : issues[k].ruleId = "form-label" /\ ~issues[k].autoFixed

\* C5: the form-label, skip-link, color-contrast and fake-button passes never
\* change the working text: after each of the four the text is what it was
\* before it, whatever the pass appended to the ledger.
C5_AdvisoryPassesKeepText ==
    pc \in {"skip", "color", "fake", "locate"} => repaired = prev

\* the form-label pass has appended an issue and left the text as it was
C5_Witness ==
    /\ pc = "skip"
    /\ Len(NewIssues) > 0
    /\ NewIssues[1].ruleId = "form-label"
    /\ repaired = prev

-----------------------------------------------------------------------------
(* Claims about the link pass: it has just run when pc = "row".            *)

\* a value that is absent or holds nothing but whitespace
Blank(v) == v = Null \/ trim(v) = <<>>

\* the tag with name="value" put before its closing >
Inserted(t, name, value) ==
    SubSeq(t, 1, Len(t) - 1) \o AttrText(name, value) \o <<">">>

\* the tag with the first occurrence of the attribute replaced by name="value"
Rewritten(t, name, value) ==
    LET m == AttrMatch(t, name)
    IN  SubSeq(t, 1, m.start - 1) \o AttrText(name, value) \o SubSeq(t, m.end + 1, Len(t))

\* an issue as a pass files it, the location not yet filled in
IssueOf(rule, original, fixed, review) ==
    [ruleId |-> rule, originalSnippet |-> original, fixedSnippet |-> fixed,
     autoFixed |-> TRUE, needsManualReview |-> review,
     line |-> 0, column |-> 0, startOffset |-> 0, endOffset |-> 0]

\* the anchors of the text before the link pass and of the text after it
AnchorsBefore == FindElements(prev, 1, AName)
AnchorsAfter == FindElements(repaired, 1, AName)

\* anchor k before the pass: its text and what the pass computes of it
FullBefore(k) == Span(prev, AnchorsBefore[k])
PartsBefore(k) == LinkParts(FullBefore(k), config)

\* anchor k after the pass: its text, its opening tag, its content
FullAfter(k) == Span(repaired, AnchorsAfter[k])
OpenAfter(k) == SubSeq(repaired, AnchorsAfter[k].start, AnchorsAfter[k].openEnd)
InnerAfter(k) ==
    SubSeq(repaired, AnchorsAfter[k].openEnd + 1, AnchorsAfter[k].closeStart - 1)

\* anchor k has an href and no accessible name: no visible text, and no alt
\* text on its first image once the pass has filled the images in
NamelessLink(k) == PartsBefore(k).hasHref /\ PartsBefore(k).linkName = <<>>

\* the number of issues of this rule, filed for this snippet by the pass that
\* has just run
FiledFor(rule, snippet) ==
    Cardinality({i \in 1..Len(NewIssues) :
                    NewIssues[i].ruleId = rule /\ NewIssues[i].originalSnippet = snippet})

\* the number of anchors before the pass with this text
CopiesOf(full) == Cardinality({j \in 1..Len(AnchorsBefore) : FullBefore(j) = full})

LinkTextPlaceholder == OrElse(config.placeholders.linkText, DefaultLinkText)
LinkTitlePlaceholder == OrElse(config.placeholders.linkEmptyTitle, DefaultLinkEmptyTitle)

OpenWithTitleFilled(open) ==
    LET title == getAttr(open, TitleAttr) IN
    IF title = Null THEN Inserted(open, TitleAttr, LinkTitlePlaceholder)
    ELSE IF HasSolidChar(title) THEN open
    ELSE Rewritten(open, TitleAttr, LinkTitlePlaceholder)

\* the anchor a nameless link becomes
NamelessLinkFixed(k) ==
    OpenWithTitleFilled(PartsBefore(k).open) \o LinkTextPlaceholder \o CloseA

BlankTargetLink(k) ==
    LET target == getAttr(PartsBefore(k).open, TargetAttr)
    IN  target # Null /\ toLowerCase(target) = BlankTarget

\* anchor k has an href, a blank target, an accessible name, and a title that
\* is not blank and holds none of the new-window keywords
TitledNewWindowLink(k) ==
    LET title == getAttr(PartsBefore(k).open, TitleAttr) IN
    /\ PartsBefore(k).hasHref
    /\ BlankTargetLink(k)
    /\ PartsBefore(k).linkName # <<>>
    /\ ~Blank(title)
    /\ ~HasNewWindowWording(trim(title))

\* C7 as stated: with link-new-window enabled, every href anchor with
\* target="_blank", an accessible name and a non-empty title without new-window
\* wording comes out with the title "hint, full-width colon, previous title",
\* and one link-new-window issue is filed for it.
C7_HintPrependedToTitle ==
    (pc = "row" /\ RuleOn("link-new-window")) =>
        /\ Len(AnchorsAfter) = Len(AnchorsBefore)
        /\ \A k \in 1..Len(AnchorsBefore) :
              TitledNewWindowLink(k) =>
                 /\ getAttr(OpenAfter(k), TitleAttr)
                      = NewWindowHint(config) \o HintSeparator
                          \o trim(getAttr(PartsBefore(k).open, TitleAttr))
                 /\ FiledFor("link-new-window", FullBefore(k)) = CopiesOf(FullBefore(k))

\* the part of C7 that is about the ledger: one link-new-window issue is filed
\* for every such anchor
C7_HintIssueFiled ==
    (pc = "row" /\ RuleOn("link-new-window")) =>
        \A k \in 1..Len(AnchorsBefore) :
            TitledNewWindowLink(k) =>
                FiledFor("link-new-window", FullBefore(k)) = CopiesOf(FullBefore(k))

\* the <img> start tags of a text
ImagesOf(text) ==
    LET spans == FindTags(text, 1, ImgNames)
    IN  [j \in 1..Len(spans) |-> Span(text, spans[j])]

\* the images of a text whose alt is missing or blank
UnnamedImages(text) ==
    {j \in 1..Len(ImagesOf(text)) : Blank(getAttr(ImagesOf(text)[j], AltAttr))}

\* the images with a missing or blank alt inside the href anchors of the text
\* before the link pass: anchor and image, by position
UnnamedLinkImages ==
    UNION {{<<k, j>> : j \in UnnamedImages(PartsBefore(k).inner0)} :
              k \in {a \in 1..Len(AnchorsBefore) : PartsBefore(a).hasHref}}

\* C8 as stated: with img-alt enabled, every image with a missing or empty alt
\* inside an href anchor is in the output with the placeholder alt filled in,
\* whichever branch the anchor takes, and one img-alt issue (autoFixed,
\* needsManualReview) is filed for each such image.
C8_LinkImageAltFilled ==
    (pc = "row" /\ RuleOn("img-alt")) =>
        LET placeholder == OrElse(config.placeholders.imgAlt, DefaultImgAlt)
            FilledIn(k, j) ==
                LET t == ImagesOf(PartsBefore(k).inner0)[j]
                IN  IF getAttr(t, AltAttr) = Null THEN Inserted(t, AltAttr, placeholder)
                    ELSE Rewritten(t, AltAttr, placeholder)
        IN  /\ \A p \in UnnamedLinkImages : includes(repaired, FilledIn(p[1], p[2]))
            /\ \A k \in 1..Len(AnchorsAfter) :
                  hasHref(OpenAfter(k)) => UnnamedImages(InnerAfter(k)) = {}
            /\ Cardinality({i \in 1..Len(NewIssues) : NewIssues[i].ruleId = "img-alt"})
                 = Cardinality(UnnamedLinkImages)
            /\ \A i \in 1..Len(NewIssues) :
                  NewIssues[i].ruleId = "img-alt"
                    => NewIssues[i].autoFixed /\ NewIssues[i].needsManualReview

\* the part of C8 that is about the ledger: one img-alt issue is filed for
\* every such image
C8_LinkImageIssueFiled ==
    (pc = "row" /\ RuleOn("img-alt")) =>
        /\ Cardinality({i \in 1..Len(NewIssues) : NewIssues[i].ruleId = "img-alt"})
             = Cardinality(UnnamedLinkImages)
        /\ \A i \in 1..Len(NewIssues) :
              NewIssues[i].ruleId = "img-alt"
                => NewIssues[i].autoFixed /\ NewIssues[i].needsManualReview

-----------------------------------------------------------------------------
(* Claims about the image pass (it has just run when pc = "link") and the  *)
(* header-scope pass (it has just run when pc = "style").                  *)

\* the start tags with one of these names in the text before the pass and in
\* the text after it
TagsBefore(names) ==
    LET spans == FindTags(prev, 1, names)
    IN  [k \in 1..Len(spans) |-> Span(prev, spans[k])]
TagsAfter(names) ==
    LET spans == FindTags(repaired, 1, names)
    IN  [k \in 1..Len(spans) |-> Span(repaired, spans[k])]

\* C9: with img-alt enabled, the image pass puts alt="placeholder" (default
\* the text of DefaultImgAlt, or placeholders.imgAlt) before the closing > of
\* every <img> start tag without an alt attribute and files exactly one img-alt
\* issue (autoFixed, needsManualReview) for it; an <img> with an alt attribute,
\* alt="" included, is left as it is and files nothing.  An alt attribute is
\* one the attribute matcher finds: alt followed by = and a value.
C9_GlobalImagePass ==
    (pc = "link" /\ RuleOn("img-alt")) =>
        LET placeholder == OrElse(config.placeholders.imgAlt, DefaultImgAlt)
            imgs == TagsBefore(ImgNames)
            NoAlt(k) == getAttr(imgs[k], AltAttr) = Null
            outs == [k \in 1..Len(imgs) |->
                        IF NoAlt(k) THEN Inserted(imgs[k], AltAttr, placeholder)
                        ELSE imgs[k]]
            filed == [k \in 1..Len(imgs) |->
                        IF NoAlt(k)
                        THEN <<IssueOf("img-alt", imgs[k], outs[k], TRUE)>>
                        ELSE <<>>]
        IN  /\ repaired = Splice(prev, FindTags(prev, 1, ImgNames), outs)
            /\ NewIssues = ConcatAll(filed, 1)
            /\ \A k \in 1..Len(imgs) :
                  NoAlt(k) => getAttr(outs[k], AltAttr) = placeholder

\* the image pass has filled in an image without alt and has left an image
\* with an empty alt as it was
C9_Witness ==
    /\ pc = "link" /\ RuleOn("img-alt")
    /\ \E k \in 1..Len(TagsBefore(ImgNames)) :
          /\ getAttr(TagsBefore(ImgNames)[k], AltAttr) = Null
          /\ getAttr(TagsAfter(ImgNames)[k], AltAttr) = DefaultImgAlt
    /\ \E k \in 1..Len(TagsBefore(ImgNames)) :
          /\ Blank(getAttr(TagsBefore(ImgNames)[k], AltAttr))
          /\ getAttr(TagsBefore(ImgNames)[k], AltAttr) # Null
          /\ TagsAfter(ImgNames)[k] = TagsBefore(ImgNames)[k]
    /\ Len(NewIssues) = 1

\* C10: with th-scope enabled, the header-scope pass gives scope="col" to
\* every <th> start tag whose scope is missing or empty (nothing but
\* whitespace) and files one th-scope issue (autoFixed, needsManualReview
\* false) for it; a <th> with a non-empty scope is left as it is and files
\* nothing; after the pass every <th> start tag of the text has a non-empty
\* scope.
C10_HeaderScopePass ==
    (pc = "style" /\ RuleOn("th-scope")) =>
        LET ths == TagsBefore(ThNames)
            Scope(k) == getAttr(ths[k], ScopeAttr)
            outs == [k \in 1..Len(ths) |->
                        IF Scope(k) = Null THEN Inserted(ths[k], ScopeAttr, ColScope)
                        ELSE IF Blank(Scope(k)) THEN Rewritten(ths[k], ScopeAttr, ColScope)
                        ELSE ths[k]]
            filed == [k \in 1..Len(ths) |->
                        IF Blank(Scope(k))
                        THEN <<IssueOf("th-scope", ths[k], outs[k], FALSE)>>
                        ELSE <<>>]
        IN  /\ repaired = Splice(prev, FindTags(prev, 1, ThNames), outs)
            /\ NewIssues = ConcatAll(filed, 1)
            /\ \A k \in 1..Len(ths) :
                  Blank(Scope(k)) => getAttr(outs[k], ScopeAttr) = ColScope
            /\ \A k \in 1..Len(TagsAfter(ThNames)) :
                  ~Blank(getAttr(TagsAfter(ThNames)[k], ScopeAttr))

\* the header-scope pass has given a scope to a <th> without one and to a <th>
\* with a blank one
C10_Witness ==
    /\ pc = "style" /\ RuleOn("th-scope")
    /\ \E k \in 1..Len(TagsBefore(ThNames)) :
          /\ getAttr(TagsBefore(ThNames)[k], ScopeAttr) = Null
          /\ getAttr(TagsAfter(ThNames)[k], ScopeAttr) = ColScope
    /\ \E k \in 1..Len(TagsBefore(ThNames)) :
          /\ getAttr(TagsBefore(ThNames)[k], ScopeAttr) # Null
          /\ Blank(getAttr(TagsBefore(ThNames)[k], ScopeAttr))
          /\ getAttr(TagsAfter(ThNames)[k], ScopeAttr) = ColScope
    /\ Len(NewIssues) = 2

-----------------------------------------------------------------------------
(* The inline-style pass.                                                  *)

\* the quoted style attributes of the text before the inline-style pass
StylesBefore == FindStyleAttrs(prev, 1)

\* style="value", as the issues of the pass quote a style
QuotedStyle(value) == StyleAttr \o <<"=", "\"">> \o value \o <<"\"">>

\* the declarations of a style text whose property is width
WidthDecls(styleText) ==
    SelectSeq(ParseDecls(SplitOn(styleText, ";"), 1), LAMBDA d : d.prop = WidthProp)

\* C11: with css-relative-units enabled, the inline-style pass replaces every
\* quoted style attribute whose normalisation reports changed by style= and
\* the normalised style in quotation marks, and files exactly one
\* css-relative-units issue for it; an attribute whose normalisation reports
\* no change stays as it was and files nothing.  The normalised style holds no
\* width declaration when removeWidth is true (the default) and as many as the
\* given style when removeWidth is false.  The document of scenario C, under
\* the defaults, comes out with style="font-size:1em" and one issue.
C11_InlineStylePass ==
    (pc = "styleTag" /\ RuleOn("css-relative-units")) =>
        LET attrs == StylesBefore
            Raw(k) == SubSeq(prev, attrs[k].vstart, attrs[k].vend)
            Norm(k) == normalizeInlineStyle(Raw(k), BasePx(config), RemoveWidth(config))
            Outs(quotes) ==
                [k \in 1..Len(attrs) |->
                    IF Norm(k).changed
                    THEN StyleAttr \o <<"=">> \o quotes[k] \o Norm(k).style \o quotes[k]
                    ELSE Span(prev, attrs[k])]
            filed == [k \in 1..Len(attrs) |->
                        IF Norm(k).changed
                        THEN <<IssueOf("css-relative-units", QuotedStyle(Raw(k)),
                                       QuotedStyle(Norm(k).style), FALSE)>>
                        ELSE <<>>]
        IN  /\ \E quotes \in [1..Len(attrs) -> {<<"\"">>, <<"'">>}] :
                  repaired = Splice(prev, attrs, Outs(quotes))
            /\ NewIssues = ConcatAll(filed, 1)
            /\ \A k \in 1..Len(attrs) :
                  Len(WidthDecls(Norm(k).style)) =
                      IF RemoveWidth(config) THEN 0 ELSE Len(WidthDecls(Raw(k)))
            /\ (html = ScenarioC /\ config = NoConfig) =>
                  repaired = ScenarioCRepaired /\ Len(NewIssues) = 1

\* the inline-style pass has run on the document of scenario C under the
\* defaults: the width is gone, the font size is 1em, one issue is filed
C11_Witness ==
    /\ pc = "styleTag" /\ RuleOn("css-relative-units")
    /\ html = ScenarioC /\ config = NoConfig
    /\ repaired = ScenarioCRepaired
    /\ Len(NewIssues) = 1

\* the pass has kept a width under removeWidth false, and has left a style
\* without lengths as it was next to one it rewrote
C11_WidthKept ==
    /\ pc = "styleTag" /\ ~RemoveWidth(config)
    /\ \E k \in 1..Len(StylesBefore) :
          WidthDecls(SubSeq(prev, StylesBefore[k].vstart, StylesBefore[k].vend)) # <<>>
    /\ Len(NewIssues) = 1

-----------------------------------------------------------------------------
(* SpecUnit: emFromPx and emFromPt applied to numbers and bases drawn from *)
(* bounded sets.  A number is given as the text the unit expressions match *)
(* ([\d.]+), which the callbacks hand to parseFloat.                       *)

LengthTexts ==
    {NatToText(n) : n \in 0..MaxLength}
      \cup {NatToText(n) \o <<".","5">> : n \in 0..MaxLength}
      \cup {<<".","5">>, <<"1",".","2","5">>, <<"0",".","0","0","0","1">>,
            <<"1","0",".">>, <<"0","0","7">>, <<"1","0","0">>}

UnitBases == {10, DefaultBasePt, DefaultBasePx}

InitUnit ==
    /\ pc = "unit"
    /\ lengthText \in LengthTexts
    /\ unitBase \in UnitBases
    /\ unitName = ""
    /\ emOut = Null
    /\ RepairIdle /\ AttrIdle /\ RuleIdle /\ StyleIdle /\ RerunIdle /\ CallsIdle

ApplyPx ==
    /\ pc = "unit"
    /\ emOut' = emFromPx(Call("parseFloat", <<lengthText>>), unitBase)
    /\ unitName' = "px"
    /\ pc' = "unitDone"
    /\ UNCHANGED <<lengthText, unitBase, repairVars, attrVars, ruleVars,
                   styleVars, rerunVars, callVars>>

ApplyPt ==
    /\ pc = "unit"
    /\ emOut' = emFromPt(Call("parseFloat", <<lengthText>>), unitBase)
    /\ unitName' = "pt"
    /\ pc' = "unitDone"
    /\ UNCHANGED <<lengthText, unitBase, repairVars, attrVars, ruleVars,
                   styleVars, rerunVars, callVars>>

NextUnit == ApplyPx \/ ApplyPt

SpecUnit == InitUnit /\ [][NextUnit]_vars

\* the number a text of digits with at most one point stands for, as the
\* fraction num / 10^dec
NumberOf(t) ==
    LET point == IndexOfChar(t, 1, ".")
        whole == IF point = 0 THEN t ELSE SubSeq(t, 1, point - 1)
        frac == IF point = 0 THEN <<>> ELSE SubSeq(t, point + 1, Len(t))
    IN  [num |-> DigitsToNat(whole \o frac), dec |-> Len(frac)]

\* the text is a decimal numeral as Number.prototype.toString writes one: no
\* leading zero before another digit, no point without digits after it, no
\* zero at the end of the fraction
IsPlainDecimal(t) ==
    LET point == IndexOfChar(t, 1, ".")
        whole == IF point = 0 THEN t ELSE SubSeq(t, 1, point - 1)
        frac == IF point = 0 THEN <<>> ELSE SubSeq(t, point + 1, Len(t))
    IN  /\ whole # <<>>
        /\ \A k \in 1..Len(whole) : whole[k] \in Digits
        /\ \A k \in 1..Len(frac) : frac[k] \in Digits
        /\ Len(whole) > 1 => whole[1] # "0"
        /\ point # 0 => frac # <<>> /\ frac[Len(frac)] # "0"

\* n / base in ten-thousandths, rounded to the nearest whole number, a half
\* rounded up
TenThousandths(n, base) ==
    LET den == Pow10(n.dec) * base
    IN  CHOOSE r \in 0..((n.num * 10000) \div den + 1) :
            2 * den * r - den <= 2 * n.num * 10000 /\ 2 * n.num * 10000 < 2 * den * r + den

\* C12: emFromPx(n, basePx) and emFromPt(n, basePt) return the quotient
\* n / base rounded to 4 decimal places, written as a decimal numeral with the
\* zeros at the end of the fraction trimmed, followed by em; 16px at 16 gives
\* 1em, 24px at 16 gives 1.5em, 12pt at 12 gives 1em.
C12_UnitConversion ==
    pc = "unitDone" =>
        LET n == NumberOf(lengthText)
            numeral == SubSeq(emOut, 1, Len(emOut) - 2)
            got == NumberOf(numeral)
        IN  /\ Len(emOut) > 2
            /\ SubSeq(emOut, Len(emOut) - 1, Len(emOut)) = <<"e","m">>
            /\ IsPlainDecimal(numeral)
            /\ got.dec <= 4
            /\ got.num * Pow10(4 - got.dec) = TenThousandths(n, unitBase)
            /\ (lengthText = <<"1","6">> /\ unitBase = 16) => emOut = <<"1","e","m">>
            /\ (lengthText = <<"2","4">> /\ unitBase = 16) => emOut = <<"1",".","5","e","m">>
            /\ (lengthText = <<"1","2">> /\ unitBase = 12) => emOut = <<"1","e","m">>

\* 24px at basePx 16 gave 1.5em
C12_Witness ==
    /\ pc = "unitDone" /\ unitName = "px"
    /\ lengthText = <<"2","4">> /\ unitBase = DefaultBasePx
    /\ emOut = <<"1",".","5","e","m">>

\* 8pt at basePt 12 gave 0.6667em: the fifth decimal was rounded up
C12_RoundedUp ==
    /\ pc = "unitDone" /\ unitName = "pt"
    /\ lengthText = <<"8">> /\ unitBase = DefaultBasePt
    /\ emOut = <<"0",".","6","6","6","7","e","m">>

-----------------------------------------------------------------------------
(* SpecStyle: normalizeInlineStyle applied to styles drawn from a bounded  *)
(* set: up to MaxDecls different declarations of DeclPool, in any order.   *)

DeclPool ==
    {<<"p","a","d","d","i","n","g","-","t","o","p",":","1","p","x">>,
     <<"p","a","d","d","i","n","g","-","r","i","g","h","t",":","1","p","x">>,
     <<"p","a","d","d","i","n","g","-","b","o","t","t","o","m",":","1","p","x">>,
     <<"p","a","d","d","i","n","g","-","l","e","f","t",":","1","p","x">>,
     <<"P","a","d","d","i","n","g","-","L","e","f","t"," ",":"," ","2","p","x">>,
     <<"w","i","d","t","h",":","5","p","x">>,
     <<" ","c","o","l","o","r",":","r","e","d">>,
     <<"f","o","n","t","-","s","i","z","e",":","1","6","p","x">>,
     <<"p","a","d","d","i","n","g","-","i","n","l","i","n","e",":","1","p","x">>}

RECURSIVE DeclLists(_)
\* the lists of at most n different declarations of the pool
DeclLists(n) ==
    IF n = 0 THEN {<<>>}
    ELSE LET shorter == DeclLists(n - 1)
         IN  shorter \cup {Append(l, d) : l \in {x \in shorter : Len(x) = n - 1},
                                          d \in DeclPool}

RECURSIVE JoinParts(_, _)
\* the declarations written one after the other, a semicolon between them
JoinParts(l, k) ==
    IF k > Len(l) THEN <<>>
    ELSE l[k] \o (IF k < Len(l) THEN <<";">> ELSE <<>>) \o JoinParts(l, k + 1)

StyleTexts ==
    {JoinParts(l, 1) :
        l \in {x \in DeclLists(MaxDecls) : \A i, j \in 1..Len(x) : i # j => x[i] # x[j]}}

InitStyle ==
    /\ pc = "normalize"
    /\ styleIn \in StyleTexts
    /\ styleBase = DefaultBasePx
    /\ styleRemoveWidth \in BOOLEAN
    /\ styleOut = Null
    /\ RepairIdle /\ AttrIdle /\ RuleIdle /\ UnitIdle /\ RerunIdle /\ CallsIdle

ApplyStyle ==
    /\ pc = "normalize"
    /\ styleOut' = Call("normalizeInlineStyle", <<styleIn, styleBase, styleRemoveWidth>>)
    /\ pc' = "normalized"
    /\ UNCHANGED <<styleIn, styleBase, styleRemoveWidth, repairVars, attrVars,
                   ruleVars, unitVars, rerunVars, callVars>>

NextStyle == ApplyStyle

SpecStyle == InitStyle /\ [][NextStyle]_vars

\* the declarations of a style text, as normalizeInlineStyle parses them
DeclsOf(styleText) == ParseDecls(SplitOn(styleText, ";"), 1)

PropsOf(decls) == [k \in 1..Len(decls) |-> decls[k].prop]

PaddingProp == <<"p","a","d","d","i","n","g">>

\* the declarations of the given style that survive the width removal
Survivors ==
    SelectSeq(DeclsOf(styleIn), LAMBDA d : ~(styleRemoveWidth /\ d.prop = WidthProp))

\* the returned style holds a padding declaration: the padding-* declarations
\* were compacted (no style of StyleTexts holds a padding declaration)
Compacted == \E k \in 1..Len(DeclsOf(styleOut.style)) :
                 DeclsOf(styleOut.style)[k].prop = PaddingProp

\* the properties ps with every property of drop removed, and padding put
\* where the first padding-* property stood
CollapsedProps(ps, drop) ==
    LET pads == {k \in 1..Len(ps) : IsPaddingSide(ps[k])}
        firstPad == CHOOSE k \in pads : \A j \in pads : k <= j
        keep == SelectSeq([k \in 1..Len(ps) |-> k],
                          LAMBDA k : k = firstPad \/ ps[k] \notin drop)
    IN  [j \in 1..Len(keep) |-> IF keep[j] = firstPad THEN PaddingProp ELSE ps[keep[j]]]

\* every property that starts with padding-
PaddingSideProps == {p \in {PropsOf(Survivors)[k] : k \in 1..Len(Survivors)} : IsPaddingSide(p)}

\* C13: the declarations that survive normalisation stand in the returned
\* style in the order they had in the given style; when the padding-*
\* declarations are compacted, the one padding declaration stands where the
\* first padding-* declaration of the given style stood and the other
\* declarations keep their order.
C13_OrderPreserved ==
    pc = "normalized" =>
        LET out == PropsOf(DeclsOf(styleOut.style))
            given == PropsOf(Survivors)
        IN  IF Compacted THEN out = CollapsedProps(given, PaddingSideProps)
            ELSE out = given

\* a style with another declaration after its first padding-* declaration
\* and before the others was compacted: the padding declaration stands first
C13_Witness ==
    /\ pc = "normalized" /\ Compacted
    /\ Len(Survivors) >= 4
    /\ IsPaddingSide(Survivors[1].prop)
    /\ ~IsPaddingSide(Survivors[2].prop)
    /\ IsPaddingSide(Survivors[3].prop)
    /\ IsPaddingSide(Survivors[4].prop)
    /\ PropsOf(DeclsOf(styleOut.style)) = <<PaddingProp, Survivors[2].prop>>

\* the four sides
FourSides == {padKeys[k] : k \in 1..Len(padKeys)}

\* the value the returned style would give a declaration of the given style:
\* its value with the px and pt lengths converted
ConvertedValue(d) == ConvertValue(d.prop, d.value, styleBase).value

\* all four sides are declared, with equal values after conversion
FourEqualSides ==
    /\ \A side \in FourSides : \E k \in 1..Len(Survivors) : Survivors[k].prop = side
    /\ \A i, j \in 1..Len(Survivors) :
          (Survivors[i].prop \in FourSides /\ Survivors[j].prop \in FourSides)
              => ConvertedValue(Survivors[i]) = ConvertedValue(Survivors[j])

\* C14 as stated: the padding-* declarations are compacted only when all four
\* sides are declared with equal values after conversion; otherwise every
\* padding-* declaration is kept; compaction removes the four sides and no
\* other declaration.
C14_CompactionNeedsFourSides ==
    pc = "normalized" =>
        LET out == PropsOf(DeclsOf(styleOut.style))
            given == PropsOf(Survivors)
        IN  /\ Compacted => FourEqualSides
            /\ ~FourEqualSides => out = given
            /\ Compacted => out = CollapsedProps(given, FourSides)

\* what holds of the compaction: it happens exactly when at least
\* MinPaddingSides of the four sides are declared and the declared sides have
\* equal values after conversion (the last declaration of a side counts), and
\* then every declaration whose property starts with padding- is removed.
C14_CompactionAsCoded ==
    pc = "normalized" =>
        LET out == PropsOf(DeclsOf(styleOut.style))
            given == PropsOf(Survivors)
            LastOf(side) == CHOOSE k \in 1..Len(Survivors) :
                               /\ Survivors[k].prop = side
                               /\ \A j \in (k + 1)..Len(Survivors) : Survivors[j].prop # side
            declared == {side \in FourSides : side \in {given[k] : k \in 1..Len(given)}}
            equal == \A a, b \in declared :
                        ConvertedValue(Survivors[LastOf(a)]) = ConvertedValue(Survivors[LastOf(b)])
        IN  /\ Compacted <=> (Cardinality(declared) >= MinPaddingSides /\ equal)
            /\ Compacted => out = CollapsedProps(given, PaddingSideProps)
            /\ ~Compacted => out = given

\* three sides with equal values, the fourth not declared, were compacted
C14_ThreeSidesCompacted ==
    /\ pc = "normalized" /\ Compacted
    /\ Cardinality({side \in FourSides :
                       \E k \in 1..Len(Survivors) : Survivors[k].prop = side}) = 3

-----------------------------------------------------------------------------
(* SpecCalls: up to MaxCalls calls of repairHtml, one after the other, on  *)
(* documents and configurations of the caller's choice.  The log keeps,    *)
(* for every call, what was passed, what was returned, and the             *)
(* configuration object as it is after the call.  repairHtml reads config  *)
(* and never writes it; it does not refer to BUILT_IN_RULES.               *)

CallDocuments ==
    {ScenarioC,
     <<"<","a"," ","h","r","e","f","=","\"","/","x","\"",">","<","/","a",">","\n","<","i","m","g"," ","s","r","c","=","\"","a",".","p","n","g","\"",">">>,
     <<"<","t","r",">","<","t","d",">","N","a","m","e","<","/","t","d",">","<","t","d",">","1","<","/","t","d",">","<","/","t","r",">">>}

CallConfigs == {NoConfig, [NoConfig EXCEPT !.placeholders = CustomPlaceholders]}

InitCalls ==
    /\ pc = "calls"
    /\ callLog = <<>>
    /\ catalog = BUILT_IN_RULES
    /\ RepairIdle /\ AttrIdle /\ RuleIdle /\ StyleIdle /\ UnitIdle /\ RerunIdle

RepairCall ==
    /\ pc = "calls"
    /\ Len(callLog) < MaxCalls
    /\ \E h \in CallDocuments, cfg \in CallConfigs :
          callLog' = Append(callLog, [html |-> h, config |-> cfg, configAfter |-> cfg,
                                      result |-> Call("repairHtml", <<h, cfg>>)])
    /\ UNCHANGED <<pc, catalog, repairVars, attrVars, ruleVars, styleVars, unitVars, rerunVars>>

NextCalls == RepairCall

SpecCalls == InitCalls /\ [][NextCalls]_vars

-----------------------------------------------------------------------------
(* SpecRerun: repairHtml applied to a document, then to the repairedHtml   *)
(* it returned, under the same configuration.                              *)

InitRerun ==
    /\ pc = "first"
    /\ html \in Documents
    /\ config \in Configs
    /\ repaired = <<>> /\ issues = <<>> /\ prev = <<>> /\ prevIssues = <<>>
    /\ firstRun = Null /\ secondRun = Null
    /\ AttrIdle /\ RuleIdle /\ StyleIdle /\ UnitIdle /\ CallsIdle

FirstRunStep ==
    /\ pc = "first"
    /\ firstRun' = Call("repairHtml", <<html, config>>)
    /\ pc' = "second"
    /\ UNCHANGED <<secondRun, repairVars, attrVars, ruleVars, styleVars, unitVars, callVars>>

SecondRunStep ==
    /\ pc = "second"
    /\ secondRun' = Call("repairHtml", <<firstRun.repairedHtml, config>>)
    /\ pc' = "rerunDone"
    /\ UNCHANGED <<firstRun, repairVars, attrVars, ruleVars, styleVars, unitVars, callVars>>

NextRerun == FirstRunStep \/ SecondRunStep

SpecRerun == InitRerun /\ [][NextRerun]_vars

\* the rules with an autoFixed issue in the result
RulesFixedIn(result) ==
    {result.issues[k].ruleId : k \in {j \in 1..Len(result.issues) : result.issues[j].autoFixed}}

\* C16 as stated: the second run's summary.autoFixed is at most the first
\* run's summary.autoFixed.
C16_AutoFixedDoesNotGrow ==
    pc = "rerunDone" => secondRun.summary.autoFixed <= firstRun.summary.autoFixed

\* C17 as stated: no rule with an autoFixed issue in the first run has an
\* autoFixed issue in the second run.
C17_NoRuleFiresAgain ==
    pc = "rerunDone" => RulesFixedIn(firstRun) \cap RulesFixedIn(secondRun) = {}

\* what holds of the count: it grows only under a configuration that does not
\* enable link-text (the empty-link branch then rewrites the anchor without an
\* issue, and the second run files one for the anchor it finds)
C16_GrowsOnlyWithLinkTextOff ==
    (pc = "rerunDone" /\ RuleOn("link-text")) =>
        secondRun.summary.autoFixed <= firstRun.summary.autoFixed

\* what holds of the rules: the rules that fire in both runs are among
\* link-new-window, img-alt and table-row-header
C17_RulesThatFireAgain ==
    pc = "rerunDone" =>
        RulesFixedIn(firstRun) \cap RulesFixedIn(secondRun)
            \subseteq {"link-new-window", "img-alt", "table-row-header"}

\* the result repairHtml returns is the text and the ledger the passes of Spec
\* arrive at
PipelineAgrees ==
    pc = "done" =>
        /\ repairHtml(html, config).repairedHtml = repaired
        /\ repairHtml(html, config).issues = issues

-----------------------------------------------------------------------------
(* The location loop.                                                      *)

DocumentSnippet == <<"(","d","o","c","u","m","e","n","t",")">>

\* the positions (from 1) at which the text t stands in the pristine input
OccurrencesOf(t) == {p \in 1..(Len(html) - Len(t) + 1) : SubSeq(html, p, p + Len(t) - 1) = t}

\* the issue has a snippet that can be looked up and that stands in the
\* pristine input
Locatable(issue) ==
    /\ issue.originalSnippet # Null
    /\ issue.originalSnippet # <<>>
    /\ issue.originalSnippet # DocumentSnippet
    /\ OccurrencesOf(issue.originalSnippet) # {}

\* C18: in the result, an issue whose originalSnippet is not empty, is not
\* "(document)" and stands in the pristine input has startOffset = the index
\* (from 0) of the first occurrence of the snippet, endOffset = startOffset +
\* the length of the snippet, line = 1 + the number of newlines before
\* startOffset and column = 1 + the number of characters between the last of
\* those newlines and startOffset; every other issue has line = column =
\* startOffset = endOffset = 0; nothing else of an issue is changed, and two
\* issues with the same snippet have the same location.
C18_LocationBackFill ==
    pc = "done" =>
        /\ Len(issues) = Len(prevIssues)
        /\ \A k \in 1..Len(issues) :
              LET issue == issues[k]
                  snippet == issue.originalSnippet
                  first == CHOOSE p \in OccurrencesOf(snippet) :
                               \A q \in OccurrencesOf(snippet) : p <= q
                  newlines == {j \in 1..(first - 1) : html[j] = "\n"}
                  lineStart == IF newlines = {} THEN 0
                               ELSE CHOOSE j \in newlines : \A i \in newlines : i <= j
              IN  /\ [issue EXCEPT !.line = 0, !.column = 0, !.startOffset = 0,
                                    !.endOffset = 0] = prevIssues[k]
                  /\ IF Locatable(issue)
                     THEN /\ issue.startOffset = first - 1
                          /\ issue.endOffset = issue.startOffset + Len(snippet)
                          /\ issue.line = 1 + Cardinality(newlines)
                          /\ issue.column = 1 + (first - 1 - lineStart)
                     ELSE /\ issue.line = 0 /\ issue.column = 0
                          /\ issue.startOffset = 0 /\ issue.endOffset = 0
        /\ \A i, j \in 1..Len(issues) :
              issues[i].originalSnippet = issues[j].originalSnippet =>
                  /\ issues[i].line = issues[j].line
                  /\ issues[i].column = issues[j].column
                  /\ issues[i].startOffset = issues[j].startOffset
                  /\ issues[i].endOffset = issues[j].endOffset

\* the locations of the three-line document are filled in: the two <th>
\* issues share line 2, column 3, offsets 11 to 15; the style issue, whose
\* snippet is written with double quotation marks, has no location
C18_Witness ==
    /\ pc = "done" /\ html = LinesDocument /\ config = NoConfig
    /\ Len(issues) = 3
    /\ \A k \in 1..2 :
          /\ issues[k].ruleId = "th-scope"
          /\ issues[k].line = 2 /\ issues[k].column = 3
          /\ issues[k].startOffset = 11 /\ issues[k].endOffset = 15
    /\ issues[3].ruleId = "css-relative-units"
    /\ ~Locatable(issues[3])
    /\ issues[3].line = 0 /\ issues[3].startOffset = 0

-----------------------------------------------------------------------------
(* C19: the branches of the link callback exclude one another.             *)

\* the rules the title and text branches of the link callback file under
LinkBranchRules == {"link-text", "link-title", "link-new-window"}

\* the issues of a list filed under one of the link branch rules
LinkBranchIssues(list) == SelectSeq(list, LAMBDA i : i.ruleId \in LinkBranchRules)

\* what each fix branch returns for anchor k, the issue it files included
BranchResults(k) ==
    LET full == FullBefore(k)
        parts == PartsBefore(k)
        title == getAttr(parts.open, TitleAttr)
    IN  {EmptyLinkBranch(full, parts.open, config),
         HintTitleBranch(full, parts.open, parts.inner, parts.linkName, config),
         LinkTitleBranch(full, parts.open, parts.inner, parts.linkName,
                         BlankTargetLink(k), config),
         ExistingTitleBranch(full, parts.open, parts.inner, title,
                             BlankTargetLink(k), config)}

\* C19: once the link pass has run, the issues it filed are the issues of its
\* anchors in document order, and for every anchor with an href at most one of
\* them is a link-text, link-title or link-new-window issue; the anchor comes
\* out as one single fix branch returns it, and the link issue filed for it, if
\* any, is the one of that branch and has the anchor as its original snippet.
\* An anchor without href files nothing.
C19_LinkBranchesExclusive ==
    pc = "row" =>
        LET n == Len(AnchorsBefore)
            Result(k) == LinkCallback(FullBefore(k), config)
        IN  /\ NewIssues = ConcatAll([k \in 1..n |-> Result(k).issues], 1)
            /\ repaired = Splice(prev, AnchorsBefore, [k \in 1..n |-> Result(k).out])
            /\ \A k \in 1..n :
                  LET filed == LinkBranchIssues(Result(k).issues) IN
                  /\ Len(filed) <= 1
                  /\ \A i \in 1..Len(filed) : filed[i].originalSnippet = FullBefore(k)
                  /\ ~PartsBefore(k).hasHref => Result(k).issues = <<>>
                  /\ PartsBefore(k).hasHref =>
                        \E b \in BranchResults(k) :
                            /\ Result(k).out = b.out
                            /\ filed = b.issues

\* the link pass has met a link that opens a new window and has a name and no
\* title, with link-title and link-new-window both enabled: the title got the
\* hint, and the one link issue filed for the anchor is the link-title issue
C19_Witness ==
    /\ pc = "row" /\ RuleOn("link-title") /\ RuleOn("link-new-window")
    /\ \E k \in 1..Len(AnchorsBefore) :
          /\ PartsBefore(k).hasHref /\ BlankTargetLink(k)
          /\ PartsBefore(k).linkName # <<>>
          /\ getAttr(PartsBefore(k).open, TitleAttr) = Null
          /\ CopiesOf(FullBefore(k)) = 1
          /\ IndexOf(getAttr(OpenAfter(k), TitleAttr), 1, NewWindowHint(config)) = 1
          /\ FiledFor("link-title", FullBefore(k)) = 1
          /\ FiledFor("link-new-window", FullBefore(k)) = 0
          /\ FiledFor("link-text", FullBefore(k)) = 0

-----------------------------------------------------------------------------
(* C20: the title written for a link that has a name and no title.         *)

\* anchor k has an href, an accessible name, and no title or a blank one
UntitledNamedLink(k) ==
    /\ PartsBefore(k).hasHref
    /\ PartsBefore(k).linkName # <<>>
    /\ Blank(getAttr(PartsBefore(k).open, TitleAttr))

\* the text s with every occurrence of lit replaced by the text repl, taken
\* character for character
RECURSIVE Replaced(_, _, _)
Replaced(s, lit, repl) ==
    LET i == IndexOf(s, 1, lit) IN
    IF i = 0 THEN s
    ELSE SubSeq(s, 1, i - 1) \o repl \o Replaced(SubSeq(s, i + Len(lit), Len(s)), lit, repl)

\* the title text of anchor k: the configured template with {text} replaced by
\* the accessible name, or the name itself when no template is configured
TitleTextOf(k) ==
    IF OrElse(config.placeholders.linkTitle, <<>>) # <<>>
    THEN Replaced(config.placeholders.linkTitle, TextSlot, PartsBefore(k).linkName)
    ELSE PartsBefore(k).linkName

\* the title the link pass is to give anchor k: under link-title the title
\* text, led by the hint when the link opens a new window and link-new-window
\* is enabled; without link-title the hint and the accessible name
TitleDue(k) ==
    IF RuleOn("link-title")
    THEN IF BlankTargetLink(k) /\ RuleOn("link-new-window")
         THEN NewWindowHint(config) \o HintSeparator \o TitleTextOf(k)
         ELSE TitleTextOf(k)
    ELSE NewWindowHint(config) \o HintSeparator \o PartsBefore(k).linkName

\* the rule the fix of anchor k is filed under
TitleRuleOf(k) == IF RuleOn("link-title") THEN "link-title" ELSE "link-new-window"

\* anchor k is one the title fill applies to under the configuration
TitleFillApplies(k) ==
    /\ UntitledNamedLink(k)
    /\ \/ RuleOn("link-title")
       \/ RuleOn("link-new-window") /\ BlankTargetLink(k)

\* one issue of this rule, not marked for review, is filed for anchor k, the
\* only anchor of its text
FiledOnce(rule, k) ==
    /\ FiledFor(rule, FullBefore(k)) = CopiesOf(FullBefore(k))
    /\ \A i \in 1..Len(NewIssues) :
          (NewIssues[i].ruleId = rule /\ NewIssues[i].originalSnippet = FullBefore(k))
              => (NewIssues[i].autoFixed /\ ~NewIssues[i].needsManualReview)

\* C20 as stated: once the link pass has run, every href anchor with an
\* accessible name and a missing or blank title has, with link-title enabled,
\* the title "template with {text} replaced by the name" (the name itself
\* without a template), led by "hint, full-width colon" when its target is
\* _blank and link-new-window is enabled, and one link-title issue with
\* needsManualReview = false; with link-title disabled and link-new-window
\* enabled a blank-target anchor has the title "hint, full-width colon, name"
\* and one link-new-window issue.
C20_TitleFill ==
    pc = "row" =>
        /\ Len(AnchorsAfter) = Len(AnchorsBefore)
        /\ \A k \in 1..Len(AnchorsBefore) :
              TitleFillApplies(k) =>
                 /\ getAttr(OpenAfter(k), TitleAttr) = TitleDue(k)
                 /\ FiledOnce(TitleRuleOf(k), k)

\* the part of C20 the code keeps: the same, for accessible names without a
\* dollar pattern; the issue is filed for every name
C20_TitleFillOfPlainNames ==
    pc = "row" =>
        /\ Len(AnchorsAfter) = Len(AnchorsBefore)
        /\ \A k \in 1..Len(AnchorsBefore) :
              TitleFillApplies(k) =>
                 /\ ~HasDollarPattern(PartsBefore(k).linkName) =>
                        getAttr(OpenAfter(k), TitleAttr) = TitleDue(k)
                 /\ FiledOnce(TitleRuleOf(k), k)

\* the link pass has given a link named "連結" that opens a new window the title
\* "hint, full-width colon, template with the name" under a configured template
C20_PlainNameFilled ==
    /\ pc = "row" /\ RuleOn("link-title") /\ RuleOn("link-new-window")
    /\ OrElse(config.placeholders.linkTitle, <<>>) # <<>>
    /\ \E k \in 1..Len(AnchorsBefore) :
          /\ UntitledNamedLink(k) /\ BlankTargetLink(k)
          /\ PartsBefore(k).linkName = <<"U+9023","U+7D50">>
          /\ TitleTextOf(k) # PartsBefore(k).linkName
          /\ getAttr(OpenAfter(k), TitleAttr) = TitleDue(k)

\* the link pass has written the title of a link named "$$" into a tag that
\* had no title attribute, and the title is "$"
C20_DollarNameShortened ==
    /\ pc = "row" /\ RuleOn("link-title")
    /\ OrElse(config.placeholders.linkTitle, <<>>) = <<>>
    /\ \E k \in 1..Len(AnchorsBefore) :
          /\ UntitledNamedLink(k) /\ ~BlankTargetLink(k)
          /\ PartsBefore(k).linkName = <<"$","$">>
          /\ getAttr(OpenAfter(k), TitleAttr) = <<"$">>

-----------------------------------------------------------------------------
(* Claims about the row-header pass: it has just run when pc = "th".       *)

\* the rows of the text before the row-header pass and of the text after it
RowsBefore == FindElements(prev, 1, TrName)
RowsAfter == FindElements(repaired, 1, TrName)
RowBefore(k) == Span(prev, RowsBefore[k])
RowAfter(k) == Span(repaired, RowsAfter[k])

\* the <td> elements of a row, in order, and the stripped text of one of them
CellsOf(tr) == FindElements(tr, 1, TdName)
CellText(tr, c) == stripTags(SubSeq(tr, c.openEnd + 1, c.closeStart - 1))

\* the first <td> of a row whose stripped text is not empty, by its place
\* among the cells of the row (0: the row has none)
FirstFilledCell(tr) ==
    First({j \in 1..Len(CellsOf(tr)) : CellText(tr, CellsOf(tr)[j]) # <<>>})

\* the header cell a <td> cell is rewritten to: <th in place of <td,
\* scope="row" put into the opening tag, the content as it was, </th>
HeaderCell(cell) ==
    LET m == ElementAt(cell, 1, TdName)
        open == SubSeq(cell, 1, m.openEnd)
        inner == SubSeq(cell, m.openEnd + 1, m.closeStart - 1)
    IN  Inserted(<<"<","t","h">> \o SubSeq(open, 4, Len(open)), ScopeAttr, RowScope)
          \o inner \o <<"<","/","t","h",">">>

\* the text a row holds after the pass in the place of its cell c
InPlaceOf(k, c) ==
    SubSeq(RowAfter(k), c.start, Len(RowAfter(k)) - (Len(RowBefore(k)) - c.end))

\* the issues the pass filed whose original snippet is this cell
RowIssuesFor(cell) ==
    SelectSeq(NewIssues, LAMBDA i : i.ruleId = "table-row-header" /\ i.originalSnippet = cell)

\* C21 as stated: with table-row-header enabled, in every row the first <td>
\* whose stripped text is not empty is rewritten to a <th scope="row"> cell
\* with the same content (the text before and after it unchanged), also when
\* empty <td> cells come before it; a row without such a cell is left as it
\* is; one table-row-header issue with needsManualReview = false is filed per
\* promoted cell, and none besides.  A cell with a style attribute is asked no
\* more than to come out as a <th> with scope="row" and its content.
C21_FirstFilledCellPromoted ==
    (pc = "th" /\ RuleOn("table-row-header")) =>
        /\ Len(RowsAfter) = Len(RowsBefore)
        /\ \A k \in 1..Len(RowsBefore) :
              LET tr == RowBefore(k)
                  j == FirstFilledCell(tr)
              IN  IF j = 0 THEN RowAfter(k) = tr
                  ELSE LET c == CellsOf(tr)[j]
                           cell == Span(tr, c)
                           th == InPlaceOf(k, c)
                       IN  /\ SubSeq(RowAfter(k), 1, c.start - 1) = SubSeq(tr, 1, c.start - 1)
                           /\ SubSeq(RowAfter(k), c.start + Len(th), Len(RowAfter(k)))
                                = SubSeq(tr, c.end + 1, Len(tr))
                           /\ IF getAttr(SubSeq(tr, c.start, c.openEnd), StyleAttr) = Null
                              THEN th = HeaderCell(cell)
                              ELSE /\ MatchLit(th, 1, <<"<","t","h">>)
                                   /\ getAttr(th, ScopeAttr) = RowScope
                                   /\ IndexOf(th, 1, SubSeq(tr, c.openEnd + 1, c.closeStart - 1)
                                                       \o <<"<","/","t","h",">">>) # 0
                           /\ Len(RowIssuesFor(cell)) >= 1
                           /\ \A i \in 1..Len(RowIssuesFor(cell)) :
                                 ~RowIssuesFor(cell)[i].needsManualReview
        /\ Len(NewIssues) = Cardinality({k \in 1..Len(RowsBefore) :
                                            FirstFilledCell(RowBefore(k)) # 0})

\* what the pass does: only the first <td> of a row is looked at.  If its
\* stripped text is not empty its first occurrence in the row is replaced by
\* the header cell, written as a replacement string (a dollar pattern in the
\* cell is expanded), and one table-row-header issue (the cell and the header
\* cell as its snippets, needsManualReview false) is filed; otherwise the row
\* stays as it is and nothing is filed, whatever the cells after it hold.
C21_FirstCellOnly ==
    (pc = "th" /\ RuleOn("table-row-header")) =>
        LET n == Len(RowsBefore)
            First1(k) == IF CellsOf(RowBefore(k)) = <<>> THEN 0
                         ELSE IF CellText(RowBefore(k), CellsOf(RowBefore(k))[1]) = <<>> THEN 0
                         ELSE 1
            Cell(k) == Span(RowBefore(k), CellsOf(RowBefore(k))[1])
            outs == [k \in 1..n |->
                        IF First1(k) = 0 THEN RowBefore(k)
                        ELSE ReplaceFirst(RowBefore(k), Cell(k), HeaderCell(Cell(k)))]
            filed == [k \in 1..n |->
                        IF First1(k) = 0 THEN <<>>
                        ELSE <<IssueOf("table-row-header", Cell(k), HeaderCell(Cell(k)), FALSE)>>]
        IN  /\ repaired = Splice(prev, RowsBefore, outs)
            /\ NewIssues = ConcatAll(filed, 1)

\* the pass has met a row whose first <td> is empty and whose second holds
\* text, and has left the row as it was, filing nothing
C21_FilledCellAfterEmptyKept ==
    /\ pc = "th" /\ RuleOn("table-row-header")
    /\ Len(RowsBefore) = 1
    /\ FirstFilledCell(RowBefore(1)) = 2
    /\ repaired = prev
    /\ NewIssues = <<>>

\* the pass has promoted the first cell of a row
C21_FirstCellPromoted ==
    /\ pc = "th" /\ RuleOn("table-row-header")
    /\ Len(RowsBefore) = 1
    /\ FirstFilledCell(RowBefore(1)) = 1
    /\ getAttr(RowAfter(1), ScopeAttr) = RowScope
    /\ Len(NewIssues) = 1

\* row k is one the pass promotes the first <td> of, and that cell carries an
\* inline style normalisation would change
StyledPromotion(k) ==
    LET cells == CellsOf(RowBefore(k)) IN
    /\ cells # <<>>
    /\ CellText(RowBefore(k), cells[1]) # <<>>
    /\ LET style == getAttr(SubSeq(RowBefore(k), cells[1].start, cells[1].openEnd), StyleAttr)
       IN  /\ style # Null
           /\ normalizeInlineStyle(style, BasePx(config), RemoveWidth(config)).changed

\* the style of the first cell of row k, and the same normalised
CellStyle(k) ==
    getAttr(SubSeq(RowBefore(k), CellsOf(RowBefore(k))[1].start,
                   CellsOf(RowBefore(k))[1].openEnd), StyleAttr)
CellStyleNormalised(k) ==
    normalizeInlineStyle(CellStyle(k), BasePx(config), RemoveWidth(config)).style

\* C22 as stated: with table-row-header enabled, when the promoted cell
\* carries an inline style that normalisation would change, the <th> the row
\* pass writes carries the normalised style, and so does the fixedSnippet of
\* the table-row-header issue filed for the cell, whether css-relative-units is
\* enabled or not.
C22_HeaderStyleNormalised ==
    (pc = "th" /\ RuleOn("table-row-header")) =>
        /\ Len(RowsAfter) = Len(RowsBefore)
        /\ \A k \in 1..Len(RowsBefore) :
              StyledPromotion(k) =>
                 LET c == CellsOf(RowBefore(k))[1]
                     cell == Span(RowBefore(k), c)
                 IN  /\ getAttr(InPlaceOf(k, c), StyleAttr) = CellStyleNormalised(k)
                     /\ \A i \in 1..Len(RowIssuesFor(cell)) :
                           getAttr(RowIssuesFor(cell)[i].fixedSnippet, StyleAttr)
                              = CellStyleNormalised(k)

\* what the pass does: the <th> and the fixedSnippet of the issue keep the
\* style of the cell as it was written
C22_HeaderStyleKept ==
    (pc = "th" /\ RuleOn("table-row-header")) =>
        /\ Len(RowsAfter) = Len(RowsBefore)
        /\ \A k \in 1..Len(RowsBefore) :
              StyledPromotion(k) =>
                 LET c == CellsOf(RowBefore(k))[1]
                     cell == Span(RowBefore(k), c)
                 IN  /\ getAttr(InPlaceOf(k, c), StyleAttr) = CellStyle(k)
                     /\ Len(RowIssuesFor(cell)) = 1
                     /\ getAttr(RowIssuesFor(cell)[1].fixedSnippet, StyleAttr) = CellStyle(k)

\* the row pass has promoted a cell with a width and a px font size while
\* css-relative-units is disabled, and the <th> has the style of the cell
C22_RawStyleInHeader ==
    /\ pc = "th" /\ RuleOn("table-row-header") /\ ~RuleOn("css-relative-units")
    /\ Len(RowsBefore) = 1
    /\ StyledPromotion(1)
    /\ WidthDecls(CellStyle(1)) # <<>>
    /\ WidthDecls(CellStyleNormalised(1)) = <<>>
    /\ getAttr(RowAfter(1), StyleAttr) = CellStyle(1)

-----------------------------------------------------------------------------
(* Claims about the <style> pass: it has just run when pc = "form".        *)

\* the <style> blocks of the text before the pass
BlocksBefore == FindElements(prev, 1, StyleName)

\* block k as written, its start tag, its content and its end tag
BlockBefore(k) == Span(prev, BlocksBefore[k])
BlockOpen(k) == SubSeq(prev, BlocksBefore[k].start, BlocksBefore[k].openEnd)
BlockCss(k) == SubSeq(prev, BlocksBefore[k].openEnd + 1, BlocksBefore[k].closeStart - 1)
BlockClose(k) == SubSeq(prev, BlocksBefore[k].closeStart, BlocksBefore[k].end)

\* the content of block k with its font-size declarations in px, pt and rem
\* converted, everything between them as it was
BlockConverted(k) ==
    ConvertFontSize(
        ConvertFontSize(ConvertFontSize(BlockCss(k), 1, Px, BasePx(config)),
                        1, Pt, DefaultBasePt),
        1, Rem, 1)

\* the css-style-tag issue: both snippets are the text <style>…</style>
StyleTagIssue ==
    LET marker == <<"<","s","t","y","l","e",">","U+2026","<","/","s","t","y","l","e",">">>
    IN  IssueOf("css-style-tag", marker, marker, FALSE)

\* C23 as stated: with css-style-tag enabled, a <style> block in which no
\* font-size declaration is converted stays as it was written, start tag and
\* attributes included, and files nothing; a block in which a declaration is
\* converted comes out with its start tag, its converted content and its end
\* tag, and files exactly one css-style-tag issue; the text outside the blocks
\* is unchanged.
C23_StyleBlockPreserved ==
    (pc = "form" /\ RuleOn("css-style-tag")) =>
        LET n == Len(BlocksBefore)
            outs == [k \in 1..n |->
                        IF BlockConverted(k) = BlockCss(k) THEN BlockBefore(k)
                        ELSE BlockOpen(k) \o BlockConverted(k) \o BlockClose(k)]
            filed == [k \in 1..n |->
                        IF BlockConverted(k) = BlockCss(k) THEN <<>>
                        ELSE <<StyleTagIssue>>]
        IN  /\ repaired = Splice(prev, BlocksBefore, outs)
            /\ NewIssues = ConcatAll(filed, 1)

\* what the pass does: every block, converted or not, comes out between a
\* bare <style> and </style>, whatever its start tag and end tag were; the
\* content is changed in the converted declarations only, and one
\* css-style-tag issue is filed for a block whose content changed.
C23_StyleBlockRewritten ==
    (pc = "form" /\ RuleOn("css-style-tag")) =>
        LET n == Len(BlocksBefore)
            outs == [k \in 1..n |->
                        <<"<","s","t","y","l","e",">">> \o BlockConverted(k)
                            \o <<"<","/","s","t","y","l","e",">">>]
            filed == [k \in 1..n |->
                        IF BlockConverted(k) = BlockCss(k) THEN <<>>
                        ELSE <<StyleTagIssue>>]
        IN  /\ repaired = Splice(prev, BlocksBefore, outs)
            /\ NewIssues = ConcatAll(filed, 1)

\* the pass has met a block with an attribute on its start tag and nothing to
\* convert: the attribute is gone and nothing is filed
C23_AttributeDropped ==
    /\ pc = "form" /\ RuleOn("css-style-tag")
    /\ Len(BlocksBefore) = 1
    /\ BlockConverted(1) = BlockCss(1)
    /\ BlockOpen(1) # <<"<","s","t","y","l","e",">">>
    /\ repaired # prev
    /\ NewIssues = <<>>

\* the pass has converted three declarations of one block with a bare start
\* tag, filing one issue, the text outside the declarations unchanged
C23_BareBlockConverted ==
    /\ pc = "form" /\ RuleOn("css-style-tag")
    /\ Len(BlocksBefore) = 1
    /\ BlockOpen(1) = <<"<","s","t","y","l","e",">">>
    /\ BlockConverted(1) # BlockCss(1)
    /\ IndexOf(BlockConverted(1), 1, <<"c","o","l","o","r",":","r","e","d",";">>) # 0
    /\ repaired = Splice(prev, BlocksBefore,
                         <<BlockOpen(1) \o BlockConverted(1) \o BlockClose(1)>>)
    /\ Len(NewIssues) = 1

-----------------------------------------------------------------------------
(* C24: the caps of the two warning passes, stated over SpecRerun.         *)

\* the issues of a result filed under this rule, and their snippets
IssuesOfRule(result, rule) == SelectSeq(result.issues, LAMBDA i : i.ruleId = rule)
SnippetsOfRule(result, rule) ==
    [k \in 1..Len(IssuesOfRule(result, rule)) |->
        IssuesOfRule(result, rule)[k].originalSnippet]

\* the result of a call on this input keeps to the caps: at most ColorCap
\* color-contrast and FakeButtonCap fake-button issues; with the rule enabled
\* they are filed for the first qualifying occurrences of the repaired text,
\* in document order, and exactly ColorCap (FakeButtonCap) are filed when the
\* input has that many or more
KeepsCaps(result, input) ==
    /\ Len(IssuesOfRule(result, "color-contrast")) <= ColorCap
    /\ Len(IssuesOfRule(result, "fake-button")) <= FakeButtonCap
    /\ RuleOn("color-contrast") =>
          /\ SnippetsOfRule(result, "color-contrast")
                = FirstN(ColorWarnings(result.repairedHtml, 1), ColorCap)
          /\ Len(ColorWarnings(input, 1)) >= ColorCap =>
                Len(IssuesOfRule(result, "color-contrast")) = ColorCap
    /\ RuleOn("fake-button") =>
          /\ SnippetsOfRule(result, "fake-button")
                = FirstN(FakeButtons(result.repairedHtml, 1), FakeButtonCap)
          /\ Len(FakeButtons(input, 1)) >= FakeButtonCap =>
                Len(IssuesOfRule(result, "fake-button")) = FakeButtonCap

\* C24: every result has at most ColorCap color-contrast issues and at most
\* FakeButtonCap fake-button issues, filed for the first qualifying
\* occurrences in document order (coloured styles without a background colour;
\* clickable <div>/<span> tags without button role and tabindex 0), exactly
\* ColorCap (FakeButtonCap) of them when the input has that many or more; a
\* second call counts anew: on a text the first call left as it was it files
\* as many warnings as the first call did.
C24_AdvisoryCaps ==
    /\ pc \in {"second", "rerunDone"} => KeepsCaps(firstRun, html)
    /\ pc = "rerunDone" =>
          /\ KeepsCaps(secondRun, firstRun.repairedHtml)
          /\ firstRun.repairedHtml = html =>
                /\ SnippetsOfRule(secondRun, "color-contrast")
                      = SnippetsOfRule(firstRun, "color-contrast")
                /\ SnippetsOfRule(secondRun, "fake-button")
                      = SnippetsOfRule(firstRun, "fake-button")

\* the document with more coloured elements than ColorCap and more clickable
\* non-controls than FakeButtonCap was repaired twice, and both calls filed
\* ColorCap and FakeButtonCap warnings, the first of them for the first <div>
C24_Witness ==
    /\ pc = "rerunDone"
    /\ html = AdvisoryDocument(MaxRepeat)
    /\ firstRun.repairedHtml = html
    /\ Len(ColorWarnings(html, 1)) > ColorCap
    /\ Len(FakeButtons(html, 1)) > FakeButtonCap
    /\ \A r \in {firstRun, secondRun} :
          /\ Len(IssuesOfRule(r, "color-contrast")) = ColorCap
          /\ Len(IssuesOfRule(r, "fake-button")) = FakeButtonCap
          /\ SnippetsOfRule(r, "fake-button")[1]
                = <<"<","d","i","v"," ","o","n","c","l","i","c","k","=","a",">">>

-----------------------------------------------------------------------------
(* Claims about the point base.  The inline-style pass has just run when   *)
(* pc = "styleTag", the <style> pass when pc = "form".                     *)

\* the value of one declaration with its px lengths divided by basePx and its
\* pt lengths by basePt (rem kept 1:1 in font-size), in the order of lines
\* 103-128
ValueAt(prop, value, basePx, basePt) ==
    LET fs == prop = FontSizeProp
        v1 == IF fs THEN ConvertUnit(value, 1, Px, basePx) ELSE value
        v2 == IF fs THEN ConvertUnit(v1, 1, Pt, basePt) ELSE v1
        v3 == IF fs THEN ConvertUnit(v2, 1, Rem, 1) ELSE v2
    IN  ConvertUnit(ConvertUnit(v3, 1, Px, basePx), 1, Pt, basePt)

\* a style text without padding-* declarations, normalised with the two bases
StyleAt(styleText, basePx, basePt, removeWidth) ==
    LET decls == ParseDecls(SplitOn(styleText, ";"), 1)
        kept == SelectSeq(decls, LAMBDA d : ~(removeWidth /\ d.prop = WidthProp))
    IN  JoinDecls([k \in 1..Len(kept) |->
                     [prop |-> kept[k].prop,
                      value |-> ValueAt(kept[k].prop, kept[k].value, basePx, basePt)]], 1)

\* whether a style text has a pt length and no padding-* declaration
PointStyle(styleText) ==
    LET decls == ParseDecls(SplitOn(styleText, ";"), 1)
    IN  /\ \E k \in 1..Len(decls) : HasUnit(decls[k].value, Pt)
        /\ \A k \in 1..Len(decls) : ~IsPaddingSide(decls[k].prop)

\* the inline-style pass has divided the pt lengths of every such style by
\* basePt
InlinePointBase(basePt) ==
    LET attrs == StylesBefore
        Raw(k) == SubSeq(prev, attrs[k].vstart, attrs[k].vend)
        Norm(k) == normalizeInlineStyle(Raw(k), BasePx(config), RemoveWidth(config))
        Outs(quotes) ==
            [k \in 1..Len(attrs) |->
                IF PointStyle(Raw(k))
                THEN StyleAttr \o <<"=">> \o quotes[k]
                       \o StyleAt(Raw(k), BasePx(config), basePt, RemoveWidth(config))
                       \o quotes[k]
                ELSE IF Norm(k).changed
                THEN StyleAttr \o <<"=">> \o quotes[k] \o Norm(k).style \o quotes[k]
                ELSE Span(prev, attrs[k])]
    IN  \E quotes \in [1..Len(attrs) -> {<<"\"">>, <<"'">>}] :
            repaired = Splice(prev, attrs, Outs(quotes))

\* the <style> pass has divided the pt font sizes of every block by basePt
BlockPointBase(basePt) ==
    LET n == Len(BlocksBefore)
        outs == [k \in 1..n |->
                    <<"<","s","t","y","l","e",">">>
                      \o ConvertFontSize(
                             ConvertFontSize(
                                 ConvertFontSize(BlockCss(k), 1, Px, BasePx(config)),
                                 1, Pt, basePt),
                             1, Rem, 1)
                      \o <<"<","/","s","t","y","l","e",">">>]
    IN  repaired = Splice(prev, BlocksBefore, outs)

\* C25 as stated: under a configuration that sets basePt, the inline-style
\* pass and the <style> pass convert a pt length to em as value / basePt with
\* the configured basePt, as they convert a px length with the configured or
\* default basePx.
C25_ConfiguredPointBase ==
    /\ (pc = "styleTag" /\ RuleOn("css-relative-units") /\ config.basePt.given) =>
           InlinePointBase(config.basePt.value)
    /\ (pc = "form" /\ RuleOn("css-style-tag") /\ config.basePt.given) =>
           BlockPointBase(config.basePt.value)

\* C25 as coded: under every configuration, one that sets basePt included,
\* the two passes convert a pt length to em as value / 12.
C25_DefaultPointBase ==
    /\ (pc = "styleTag" /\ RuleOn("css-relative-units")) =>
           InlinePointBase(DefaultBasePt)
    /\ (pc = "form" /\ RuleOn("css-style-tag")) =>
           BlockPointBase(DefaultBasePt)

\* under the configuration with basePt 10, the inline-style pass has turned
\* font-size:9pt into 0.75em, which is 9 / 12
C25_InlinePointOverTwelve ==
    /\ pc = "styleTag" /\ config.basePt.given
    /\ \E k \in 1..Len(StylesBefore) :
          PointStyle(SubSeq(prev, StylesBefore[k].vstart, StylesBefore[k].vend))
    /\ InlinePointBase(DefaultBasePt)
    /\ ~InlinePointBase(config.basePt.value)

\* under the same configuration, the <style> pass has turned font-size:12pt;
\* into font-size: 1em;
C25_BlockPointOverTwelve ==
    /\ pc = "form" /\ config.basePt.given
    /\ BlockPointBase(DefaultBasePt)
    /\ ~BlockPointBase(config.basePt.value)

-----------------------------------------------------------------------------
(* Claims about the content of a nameless link: the link pass has just run *)
(* when pc = "row".                                                        *)

\* the content of anchor k before the pass, as written
InnerBefore(k) ==
    SubSeq(prev, AnchorsBefore[k].openEnd + 1, AnchorsBefore[k].closeStart - 1)

\* C26 as stated: every anchor with an href and no accessible name comes out
\* with all the markup it held before the pass still inside it, and with the
\* placeholder link text inside it as well.
C26_EmptyLinkContentKept ==
    pc = "row" =>
        /\ Len(AnchorsAfter) = Len(AnchorsBefore)
        /\ \A k \in 1..Len(AnchorsBefore) :
              NamelessLink(k) =>
                  /\ includes(InnerAfter(k), LinkTextPlaceholder)
                  /\ includes(InnerAfter(k), trim(InnerBefore(k)))

\* C26 as coded: under every configuration, every anchor with an href and no
\* accessible name comes out with the placeholder link text as its whole
\* content, whatever it held before.
C26_EmptyLinkContentReplaced ==
    pc = "row" =>
        /\ Len(AnchorsAfter) = Len(AnchorsBefore)
        /\ \A k \in 1..Len(AnchorsBefore) :
              NamelessLink(k) => InnerAfter(k) = LinkTextPlaceholder

\* the pass has fixed a nameless link that held an icon element, and the
\* element is gone
C26_IconLost ==
    /\ pc = "row"
    /\ \E k \in 1..Len(AnchorsBefore) :
          /\ NamelessLink(k)
          /\ includes(InnerBefore(k), <<"<","i"," ">>)
          /\ ~includes(InnerAfter(k), <<"<","i"," ">>)
          /\ InnerAfter(k) = LinkTextPlaceholder

\* with img-alt disabled, the pass has fixed a nameless link that held an
\* image with an empty alt, and the image is gone
C26_ImageLost ==
    /\ pc = "row" /\ ~RuleOn("img-alt")
    /\ \E k \in 1..Len(AnchorsBefore) :
          /\ NamelessLink(k)
          /\ includes(InnerBefore(k), <<"<","i","m","g">>)
          /\ ~includes(InnerAfter(k), <<"<","i","m","g">>)

-----------------------------------------------------------------------------
(* Claims about the frame pass: it has just run when pc = "img".           *)

FramesBefore == TagsBefore(FrameNames)
FramesAfter == TagsAfter(FrameNames)

\* the title the pass writes
FrameTitlePlaceholder == OrElse(config.placeholders.iframeTitle, DefaultFrameTitle)

\* frame tag k has no title or a blank one
FrameDue(k) == Blank(getAttr(FramesBefore[k], TitleAttr))

\* the frame-title issues filed for frame tag k by the pass, one per tag with
\* the same text
FrameIssues(k) ==
    SelectSeq(NewIssues, LAMBDA i : i.ruleId = "frame-title"
                                      /\ i.originalSnippet = FramesBefore[k])

\* the frame pass has given every frame tag without a title the placeholder
\* title and filed one autoFixed issue for it, marked for review or not as
\* given, and has left every titled frame as it was, without an issue
FrameTitleFix(review) ==
    /\ Len(FramesAfter) = Len(FramesBefore)
    /\ Len(NewIssues) = Cardinality({k \in 1..Len(FramesBefore) : FrameDue(k)})
    /\ \A k \in 1..Len(FramesBefore) :
          IF FrameDue(k)
          THEN /\ getAttr(FramesAfter[k], TitleAttr) = FrameTitlePlaceholder
               /\ Len(FrameIssues(k)) =
                     Cardinality({j \in 1..Len(FramesBefore) :
                                     FramesBefore[j] = FramesBefore[k]})
               /\ \A i \in 1..Len(FrameIssues(k)) :
                     /\ FrameIssues(k)[i].autoFixed
                     /\ FrameIssues(k)[i].needsManualReview = review
                     /\ FrameIssues(k)[i].fixedSnippet = FramesAfter[k]
          ELSE /\ FramesAfter[k] = FramesBefore[k]
               /\ FrameIssues(k) = <<>>

\* the review mark the pass gives an issue (line 240)
MarkedReview == includes(FrameTitlePlaceholder, ReviewMark)

\* C27 as stated: with frame-title enabled, every <iframe> or <frame> start
\* tag whose title is missing or empty gets the placeholder title (the default
\* or the configured one) and one frame-title issue with autoFixed and
\* needsManualReview both true, whatever the placeholder text; a frame with a
\* title is left unchanged and files nothing.
C27_FrameTitleReviewed ==
    (pc = "img" /\ RuleOn("frame-title")) => FrameTitleFix(TRUE)

\* C27 as coded: the same, except that the issue is marked for review only
\* when the placeholder text contains the characters 請補上.
C27_FrameTitleMarked ==
    (pc = "img" /\ RuleOn("frame-title")) => FrameTitleFix(MarkedReview)

\* under the default placeholder, the pass has titled a frame and marked the
\* issue for review
C27_DefaultReviewed ==
    /\ pc = "img" /\ RuleOn("frame-title")
    /\ config.placeholders.iframeTitle = Null
    /\ \E k \in 1..Len(FramesBefore) :
          /\ FrameDue(k)
          /\ getAttr(FramesAfter[k], TitleAttr) = DefaultFrameTitle
          /\ FrameIssues(k) # <<>>
          /\ FrameIssues(k)[1].needsManualReview

\* under the configured placeholder, the pass has titled a frame and filed an
\* issue that is not marked for review
C27_ConfiguredNotReviewed ==
    /\ pc = "img" /\ RuleOn("frame-title")
    /\ config.placeholders.iframeTitle = CustomPlaceholders.iframeTitle
    /\ \E k \in 1..Len(FramesBefore) :
          /\ FrameDue(k)
          /\ getAttr(FramesAfter[k], TitleAttr) = CustomPlaceholders.iframeTitle
          /\ FrameIssues(k) # <<>>
          /\ FrameIssues(k)[1].autoFixed
          /\ ~FrameIssues(k)[1].needsManualReview

-----------------------------------------------------------------------------
(* Claims about the order of the image pass and the link pass.  The image  *)
(* pass has just run when pc = "link", the link pass when pc = "row".      *)

\* the anchors of the text repairHtml was given
GivenAnchors == FindElements(html, 1, AName)

\* the opening tag and the content of the first of them
GivenOpen == SubSeq(html, GivenAnchors[1].start, GivenAnchors[1].openEnd)
GivenInner ==
    SubSeq(html, GivenAnchors[1].openEnd + 1, GivenAnchors[1].closeStart - 1)

\* the text given is one anchor with an href whose only content is one <img>
\* tag without alt
ImageLinkGiven ==
    /\ Len(GivenAnchors) = 1
    /\ html = GivenOpen \o GivenInner \o CloseA
    /\ hasHref(GivenOpen)
    /\ LET imgs == FindTags(GivenInner, 1, ImgNames)
       IN  /\ Len(imgs) = 1
           /\ Span(GivenInner, imgs[1]) = GivenInner
           /\ getAttr(GivenInner, AltAttr) = Null

\* the image with the default placeholder as its alt
FilledImage == Inserted(GivenInner, AltAttr, DefaultImgAlt)

\* the title made of the alt placeholder: the placeholder, led by the
\* new-window hint when the target is _blank
TitleOfAlt ==
    LET target == getAttr(GivenOpen, TargetAttr) IN
    IF target # Null /\ toLowerCase(target) = BlankTarget
    THEN DefaultNewWindowHint \o HintSeparator \o DefaultImgAlt
    ELSE DefaultImgAlt

\* the number of issues of a rule in a list
RuleCount(list, rule) == Cardinality({i \in 1..Len(list) : list[i].ruleId = rule})

-----------------------------------------------------------------------------
(* Claims about the result record, over the two runs of SpecRerun.         *)

\* a result is consistent with the text it was made for: it carries that text
\* as originalHtml, and its summary counts its issues, those with autoFixed
\* and those with needsManualReview
ConsistentResult(result, input) ==
    /\ result.originalHtml = input
    /\ result.summary.totalIssues = Len(result.issues)
    /\ result.summary.autoFixed =
          Len(SelectSeq(result.issues, LAMBDA i : i.autoFixed))
    /\ result.summary.needsManualReview =
          Len(SelectSeq(result.issues, LAMBDA i : i.needsManualReview))

\* C29: in every result repairHtml returns, originalHtml is the text given,
\* summary.totalIssues is the number of issues, summary.autoFixed the number
\* of issues with autoFixed true, and summary.needsManualReview the number of
\* issues with needsManualReview true.
C29_ResultConsistent ==
    /\ pc \in {"second", "rerunDone"} => ConsistentResult(firstRun, html)
    /\ pc = "rerunDone" => ConsistentResult(secondRun, firstRun.repairedHtml)

\* a run has returned a result whose text differs from the text given, with
\* issues that are fixed and issues that are not, issues to review and issues
\* not to review
C29_Witness ==
    /\ pc = "second"
    /\ firstRun.originalHtml = html
    /\ firstRun.repairedHtml # html
    /\ firstRun.summary.autoFixed > 0
    /\ firstRun.summary.needsManualReview > 0
    /\ firstRun.summary.totalIssues > firstRun.summary.autoFixed
    /\ firstRun.summary.totalIssues > firstRun.summary.needsManualReview

-----------------------------------------------------------------------------
(* Claims about the snippets of the link pass's issues: the pass has just  *)
(* run when pc = "row".                                                    *)

\* the issues the callback of the link pass files for anchor k
LinkIssuesOf(k) == LinkCallback(FullBefore(k), config).issues

\* the ledger of the pass is made of the issues of its anchors, in order, and
\* the pass keeps the number of anchors
LinkLedgerByAnchor ==
    /\ Len(AnchorsAfter) = Len(AnchorsBefore)
    /\ NewIssues = ConcatAll([k \in 1..Len(AnchorsBefore) |-> LinkIssuesOf(k)], 1)

\* the fixedSnippet of an issue of anchor k is what the pass put in the text:
\* the anchor as it stands after the pass, or for an img-alt issue an image tag
\* inside that anchor
ReportsAppliedFix(issue, k) ==
    IF issue.ruleId = "img-alt"
    THEN includes(FullAfter(k), issue.fixedSnippet)
    ELSE issue.fixedSnippet = FullAfter(k)

\* C30 as stated: for every issue the link pass files with autoFixed true,
\* the fixedSnippet is the text the pass substituted for the anchor (for a
\* nested image, the image tag as it stands in the substituted anchor), and it
\* differs from the originalSnippet.
C30_IssueReportsAppliedFix ==
    pc = "row" =>
        /\ LinkLedgerByAnchor
        /\ \A k \in 1..Len(AnchorsBefore) :
              \A i \in 1..Len(LinkIssuesOf(k)) :
                  LinkIssuesOf(k)[i].autoFixed =>
                      /\ ReportsAppliedFix(LinkIssuesOf(k)[i], k)
                      /\ LinkIssuesOf(k)[i].fixedSnippet # LinkIssuesOf(k)[i].originalSnippet

\* C30 as coded: a link-text issue, a link-new-window issue, and a link-title
\* issue of an anchor that does not get the new-window hint as well, carry the
\* anchor as it stands after the pass as fixedSnippet; a link-text issue and a
\* link-title issue carry a fixedSnippet that differs from the originalSnippet.
C30_AnchorIssuesElsewhere ==
    pc = "row" =>
        /\ LinkLedgerByAnchor
        /\ \A k \in 1..Len(AnchorsBefore) :
              \A i \in 1..Len(LinkIssuesOf(k)) :
                  LET issue == LinkIssuesOf(k)[i] IN
                  /\ (\/ issue.ruleId \in {"link-text", "link-new-window"}
                      \/ /\ issue.ruleId = "link-title"
                         /\ ~(BlankTargetLink(k) /\ RuleOn("link-new-window")))
                     => issue.fixedSnippet = FullAfter(k)
                  /\ issue.ruleId \in {"link-text", "link-title"}
                     => issue.fixedSnippet # issue.originalSnippet

\* the pass has written a title with the new-window hint and filed a
\* link-title issue whose fixedSnippet has the title without the hint
C30_MergedTitleNotReported ==
    /\ pc = "row"
    /\ \E k \in 1..Len(AnchorsBefore) : \E i \in 1..Len(LinkIssuesOf(k)) :
          /\ LinkIssuesOf(k)[i].ruleId = "link-title"
          /\ LinkIssuesOf(k)[i].autoFixed
          /\ LinkIssuesOf(k)[i] \in {NewIssues[j] : j \in 1..Len(NewIssues)}
          /\ LinkIssuesOf(k)[i].fixedSnippet # FullAfter(k)
          /\ includes(FullAfter(k), NewWindowHint(config) \o HintSeparator)
          /\ ~includes(LinkIssuesOf(k)[i].fixedSnippet, NewWindowHint(config) \o HintSeparator)

\* the pass has filed a link-new-window issue, autoFixed, whose fixedSnippet
\* is its originalSnippet
C30_SnippetUnchanged ==
    /\ pc = "row"
    /\ \E j \in 1..Len(NewIssues) :
          /\ NewIssues[j].ruleId = "link-new-window"
          /\ NewIssues[j].autoFixed
          /\ NewIssues[j].fixedSnippet = NewIssues[j].originalSnippet

\* the pass has filed an img-alt issue, autoFixed, for an image of an anchor it
\* returned as it was: the fixed tag is not in the text
C30_ImageFixNotInText ==
    /\ pc = "row"
    /\ \E k \in 1..Len(AnchorsBefore) : \E i \in 1..Len(LinkIssuesOf(k)) :
          /\ LinkIssuesOf(k)[i].ruleId = "img-alt"
          /\ LinkIssuesOf(k)[i].autoFixed
          /\ LinkIssuesOf(k)[i] \in {NewIssues[j] : j \in 1..Len(NewIssues)}
          /\ FullAfter(k) = FullBefore(k)
          /\ ~includes(repaired, LinkIssuesOf(k)[i].fixedSnippet)

====
